---- MODULE Spec2Model ----
(***************************************************************************)
(* clawctl: task lifecycle (task store, routing, SSH drop-file dispatch,   *)
(* poll, timeout sweep) and the encrypted secret vault.                    *)
(*                                                                         *)
(* Conventions.  An optional field (TypeScript `x?: T`) is a sequence of   *)
(* length 0 (absent / undefined) or 1 (present).  A string the code looks  *)
(* inside of (trim, includes, split) is a sequence of one-character        *)
(* strings; the poll sentinel is the single chunk "__NOT_FOUND__".  Time   *)
(* is Date.now() in milliseconds.                                          *)
(***************************************************************************)
EXTENDS Integers, Sequences, FiniteSets, TLC

VARIABLES
    tasks,      \* ~/.clawctl/tasks.json: the array of Task records
    now,        \* the wall clock, ms
    remote,     \* remote[agentId][taskId]: the worker's memory/tasks files
    out,        \* what the last command reported (exit path, poll status, sweep count)
    poll,       \* the running `tasks poll --wait` invocation, if any
    vaultFile,  \* ~/.clawctl/secrets.json: <<>> or <<SecretsFile>>
    vault,      \* the open SecretVault object (key, salt), <<>> when none
    vout,       \* what the last vault operation returned
    nonce,      \* source of randomBytes(): salts and IVs never repeat
    routed,     \* the task and roster a caller holds, and what route gave for them
    auditLog,   \* the audit sink: which store is set, and ~/.clawctl/audit.json
    policy,     \* ~/.clawctl/policy.json: <<>> or <<PolicyFile>>
    pout,       \* what the last policy command or gate evaluation returned
    pushed,     \* the remote steps of the last `secrets push`, and the worker's .env
    inflight,   \* invocations in progress between two of their awaits
    fleet,      \* the running `update fleet` invocation
    ws          \* the dashboard's WebSocket module state and its clients

taskVars == <<tasks, now, remote, out, poll>>
vaultVars == <<vaultFile, vault, vout, nonce>>
routeVars == <<routed>>
sysVars == <<policy, pout, pushed, inflight, fleet, ws>>
vars == <<tasks, now, remote, out, poll, vaultFile, vault, vout, nonce, routed,
          auditLog, policy, pout, pushed, inflight, fleet, ws>>

-----------------------------------------------------------------------------
(* Bounds *)

MaxTasks == 1
MaxTicks == 1
MaxContentLen == 1
MaxVaultOps == 3
MaxRoster == 3
MaxCalls == 2
MaxAudit == 3
MaxCreates == 2
MaxBatches == 3
MaxChanges == 1
MaxAuditRows == 11

(* Program constants *)

POLL_INTERVAL_MS == 10000
MS_PER_SECOND == 1000

None == <<>>
Some(v) == <<v>>
IsSome(o) == Len(o) > 0
Get(o) == o[1]

MaxClock == MaxTicks * POLL_INTERVAL_MS

\* randomBytes() draws: three for a new vault (salt, two IVs), two for each save
MaxNonce == 3 + 2 * MaxVaultOps

-----------------------------------------------------------------------------
(* Strings as character sequences *)

WS == " "
NL == "\n"
Whitespace == {WS, NL}
NOT_FOUND == "__NOT_FOUND__"

Str_research == <<"r", "e", "s", "e", "a", "r", "c", "h">>
Str_Research == <<"R", "e", "s", "e", "a", "r", "c", "h">>
Str_fix == <<"f", "i", "x">>
Str_coding == <<"c", "o", "d", "i", "n", "g">>

\* String.prototype.toLowerCase, on the letters the inputs use
LowerChar(c) == CASE c = "R" -> "r" [] c = "C" -> "c" [] OTHER -> c

toLowerCase(s) == [i \in 1..Len(s) |-> LowerChar(s[i])]

\* String.prototype.includes
includes(hay, needle) ==
    \E i \in 0..(Len(hay) - Len(needle)) :
        \A j \in 1..Len(needle) : hay[i + j] = needle[j]

\* String.prototype.trim: drop leading and trailing whitespace
RECURSIVE trimStart(_)
trimStart(s) == IF s # <<>> /\ Head(s) \in Whitespace THEN trimStart(Tail(s)) ELSE s

RECURSIVE trimEnd(_)
trimEnd(s) ==
    IF s # <<>> /\ s[Len(s)] \in Whitespace THEN trimEnd(SubSeq(s, 1, Len(s) - 1)) ELSE s

trim(s) == trimEnd(trimStart(s))

\* String.prototype.split(/\s+/): the maximal runs between whitespace runs
\* (a leading or trailing whitespace run yields an empty first or last piece)
RECURSIVE splitWs(_, _, _)
splitWs(s, cur, inWs) ==
    IF s = <<>> THEN <<cur>>
    ELSE IF Head(s) \in Whitespace
         THEN IF inWs THEN splitWs(Tail(s), cur, TRUE)
              ELSE <<cur>> \o splitWs(Tail(s), <<>>, TRUE)
         ELSE splitWs(Tail(s), Append(cur, Head(s)), FALSE)

split(s) == splitWs(s, <<>>, FALSE)

\* Sequences over S of length at most n
SeqUpTo(S, n) == UNION {[1..k -> S] : k \in 0..n}

-----------------------------------------------------------------------------
(* Agent roster: agents.json read through JsonAgentStore *)

\* The agents file as `agents add` is asked to write it
AgentsFile == <<
    [id |-> "a0", name |-> "boss", status |-> "online", role |-> "orchestrator",
     capabilities |-> <<Str_research>>],
    [id |-> "a1", name |-> "alpha", status |-> "online", role |-> "worker",
     capabilities |-> <<Str_research>>, sessionKey |-> "s1"],
    [id |-> "a2", name |-> "beta", status |-> "offline", role |-> "worker",
     capabilities |-> <<Str_coding>>] >>

SchemaKeys == {"id", "name", "status", "role"}

\* AgentSchema.parse: a z.object keeps the declared keys and strips the others
AgentSchemaParse(a) == [k \in (DOMAIN a) \cap SchemaKeys |-> a[k]]

\* The same roster after a health check found alpha degraded
AgentsFileDegraded == [AgentsFile EXCEPT ![2].status = "degraded"]

\* The same roster after `agents remove alpha`
AgentsFileRemoved == SelectSeq(AgentsFile, LAMBDA a : a.name # "alpha")

\* The same roster after health checks found alpha degraded and beta online
AgentsFileSwapped == [AgentsFileDegraded EXCEPT ![3].status = "online"]

\* The roster is owned by the registry commands; a task command reads whichever
\* of these is on disk when it runs
Rosters == {AgentsFile, AgentsFileDegraded, AgentsFileRemoved}
Registries == {AgentsFile, AgentsFileRemoved}

\* JsonAgentStore.list (readAgents: AgentsFileSchema.parse of the file)
AgentStoreList(file) == [i \in 1..Len(file) |-> AgentSchemaParse(file[i])]

\* JsonAgentStore.get: the first agent whose id or name is the argument
AgentStoreGet(file, idOrName) ==
    LET hits == SelectSeq(AgentStoreList(file),
                          LAMBDA a : a.id = idOrName \/ a.name = idOrName)
    IN  IF hits = <<>> THEN None ELSE Some(Head(hits))

AgentIds == {AgentsFile[i].id : i \in 1..Len(AgentsFile)}

-----------------------------------------------------------------------------
(* Routing engine *)

Field(r, k, default) == IF k \in DOMAIN r THEN r[k] ELSE default

InSeq(x, s) == \E i \in 1..Len(s) : s[i] = x

\* one scoring loop: the fragments pushed and the points added
RECURSIVE Tally(_, _, _)
Tally(s, Hit(_), pts) ==
    IF s = <<>> THEN 0 ELSE (IF Hit(Head(s)) THEN pts ELSE 0) + Tally(Tail(s), Hit, pts)

Fragments(s, Hit(_), label) ==
    LET hit == SelectSeq(s, Hit) IN [i \in 1..Len(hit) |-> <<label, hit[i]>>]

\* scoreAgent that gives the online bonus to every agent that is not offline
scoreAgent_anyReachable(task, agent) ==
    LET required == IF IsSome(task.requiredCapabilities)
                    THEN Get(task.requiredCapabilities) ELSE <<>>
        caps == Field(agent, "capabilities", <<>>)
        taskText == toLowerCase(task.title \o <<WS>> \o task.description)
        desc == toLowerCase(Field(agent, "description", <<>>))
        words == SelectSeq(split(taskText), LAMBDA w : Len(w) > 4)
        exact(req) == InSeq(req, caps)
        fuzzy(cap) == includes(taskText, toLowerCase(cap))
        inDesc(w) == includes(desc, w)
        session == Field(agent, "sessionKey", "") # ""
        reasons == Fragments(required, exact, "has capability: ")
                   \o Fragments(caps, fuzzy, "task mentions: ")
                   \o << <<"agent is online">> >>
                   \o (IF session THEN << <<"has session key (direct messaging)">> >> ELSE <<>>)
    IN  [agent |-> agent,
         reason |-> reasons,
         score |-> Tally(required, exact, 10) + Tally(caps, fuzzy, 5)
                   + Tally(words, inDesc, 1) + 3 + (IF session THEN 2 ELSE 0)]

\* the body of routeTask's map(): one agent's score and reason
scoreAgent(task, agent) ==
    LET required == IF IsSome(task.requiredCapabilities)
                    THEN Get(task.requiredCapabilities) ELSE <<>>
        caps == Field(agent, "capabilities", <<>>)
        taskText == toLowerCase(task.title \o <<WS>> \o task.description)
        desc == toLowerCase(Field(agent, "description", <<>>))
        words == SelectSeq(split(taskText), LAMBDA w : Len(w) > 4)
        exact(req) == InSeq(req, caps)
        fuzzy(cap) == includes(taskText, toLowerCase(cap))
        inDesc(w) == includes(desc, w)
        online == agent.status = "online"
        session == Field(agent, "sessionKey", "") # ""
        score == Tally(required, exact, 10) + Tally(caps, fuzzy, 5)
                 + Tally(words, inDesc, 1)
                 + (IF online THEN 3 ELSE 0) + (IF session THEN 2 ELSE 0)
        reasons == Fragments(required, exact, "has capability: ")
                   \o Fragments(caps, fuzzy, "task mentions: ")
                   \o (IF online THEN << <<"agent is online">> >> ELSE <<>>)
                   \o (IF session THEN << <<"has session key (direct messaging)">> >> ELSE <<>>)
    IN  [agent |-> agent,
         reason |-> IF Len(reasons) > 0 THEN reasons ELSE << <<"no specific match">> >>,
         score |-> score]

\* an insertion that puts a result before the results of equal score
RECURSIVE InsertByScore_tiesFirst(_, _)
InsertByScore_tiesFirst(r, sorted) ==
    IF sorted = <<>> THEN <<r>>
    ELSE IF Head(sorted).score > r.score
         THEN <<Head(sorted)>> \o InsertByScore_tiesFirst(r, Tail(sorted))
         ELSE <<r>> \o sorted

\* Array.prototype.sort((a, b) => b.score - a.score): stable, descending
RECURSIVE InsertByScore(_, _)
InsertByScore(r, sorted) ==
    IF sorted = <<>> THEN <<r>>
    ELSE IF Head(sorted).score >= r.score
         THEN <<Head(sorted)>> \o InsertByScore(r, Tail(sorted))
         ELSE <<r>> \o sorted

RECURSIVE sortByScore(_)
sortByScore(s) ==
    IF s = <<>> THEN <<>>
    ELSE InsertByScore(s[Len(s)], sortByScore(SubSeq(s, 1, Len(s) - 1)))

\* routeTask without the candidate filter
routeTask_noFilter(task, agents) ==
    LET scored == [i \in 1..Len(agents) |-> scoreAgent(task, agents[i])]
    IN  sortByScore(SelectSeq(scored, LAMBDA r : r.score > 0))

\* routeTask that answers from a cache it empties on every call
routeTask_byCallCount(task, agents) ==
    LET eligible == SelectSeq(agents,
                        LAMBDA a : a.status # "offline" /\ a.role # "orchestrator")
        scored == [i \in 1..Len(eligible) |-> scoreAgent(task, eligible[i])]
    IN  IF routed.n > 0 THEN <<>>
        ELSE sortByScore(SelectSeq(scored, LAMBDA r : r.score > 0))

\* routeTask(task, agents)
routeTask(task, agents) ==
    LET eligible == SelectSeq(agents,
                        LAMBDA a : a.status # "offline" /\ a.role # "orchestrator")
        scored == [i \in 1..Len(eligible) |-> scoreAgent(task, eligible[i])]
    IN  sortByScore(SelectSeq(scored, LAMBDA r : r.score > 0))

\* bestRoute that never finds a match
bestRoute_none(task, agents) == None

\* bestRoute(task, agents)
bestRoute(task, agents) ==
    LET candidates == routeTask(task, agents)
    IN  IF Len(candidates) > 0 THEN Some(candidates[1]) ELSE None

-----------------------------------------------------------------------------
(* Task store: tasks.json through TaskStore *)

TERMINAL == {"completed", "failed", "cancelled"}

TaskIds == 1..MaxTasks

\* parseInt(s, 10) on a string of decimal digits
DigitVal(c) == CASE c = "0" -> 0 [] c = "1" -> 1 [] c = "2" -> 2 [] c = "5" -> 5
RECURSIVE parseIntAcc(_, _)
parseIntAcc(s, acc) ==
    IF s = <<>> THEN acc ELSE parseIntAcc(Tail(s), acc * 10 + DigitVal(Head(s)))
parseInt(s) == parseIntAcc(s, 0)

\* TaskStore.create: the record pushed (id is randomUUID(): a fresh id)
createTask(ts, input, t) ==
    [id |-> Len(ts) + 1,
     title |-> input.title,
     description |-> input.description,
     requestedBy |-> input.requestedBy,
     requiredCapabilities |-> input.requiredCapabilities,
     timeoutSeconds |-> input.timeoutSeconds,
     status |-> "pending",
     createdAt |-> t,
     assignedTo |-> None, assignedToName |-> None, routingReason |-> None,
     result |-> None, error |-> None, assignedAt |-> None, completedAt |-> None]

\* TaskStore.get / findIndex: 0 when no task has the id
findIndex(ts, id) ==
    IF \E i \in 1..Len(ts) : ts[i].id = id
    THEN CHOOSE i \in 1..Len(ts) : ts[i].id = id /\ \A j \in 1..(i - 1) : ts[j].id # id
    ELSE 0

\* update that writes back only the task it updated
update_keepOnlyUpdated(ts, id, updates) ==
    LET index == findIndex(ts, id)
    IN  IF index = 0 THEN ts
        ELSE <<[k \in DOMAIN ts[index] |->
                   IF k \in DOMAIN updates THEN updates[k] ELSE ts[index][k]]>>

\* TaskStore.update: tasks[index] = { ...tasks[index], ...updates }
update(ts, id, updates) ==
    LET index == findIndex(ts, id)
    IN  IF index = 0 THEN ts
        ELSE [ts EXCEPT ![index] =
                 [k \in DOMAIN ts[index] |->
                     IF k \in DOMAIN updates THEN updates[k] ELSE ts[index][k]]]

\* assign that forgets to record the worker
assign_noWorker(ts, id, agentId, agentName, reason, t) ==
    update(ts, id, [routingReason |-> Some(reason), status |-> "assigned",
                    assignedAt |-> Some(t)])

\* TaskStore.assign
assign(ts, id, agentId, agentName, reason, t) ==
    update(ts, id, [assignedTo |-> Some(agentId), assignedToName |-> Some(agentName),
                    routingReason |-> Some(reason), status |-> "assigned",
                    assignedAt |-> Some(t)])

\* complete that forgets to store the result
complete_noResult(ts, id, result, t) ==
    update(ts, id, [status |-> "completed", completedAt |-> Some(t)])

\* TaskStore.complete
complete(ts, id, result, t) ==
    update(ts, id, [status |-> "completed", result |-> Some(result),
                    completedAt |-> Some(t)])

\* TaskStore.fail
fail(ts, id, error, t) ==
    update(ts, id, [status |-> "failed", error |-> Some(error),
                    completedAt |-> Some(t)])

-----------------------------------------------------------------------------
(* Audit sink: audit() over the AuditStore that is set *)

\* AuditAction: the action names AuditEntrySchema accepts
AuditAction == {
    "agent.add", "agent.remove", "agent.update", "agent.status",
    "agent.deploy.fresh", "agent.deploy.adopt", "agent.logs",
    "config.push", "config.pull", "config.diff",
    "secrets.set", "secrets.get", "secrets.delete", "secrets.push",
    "network.tag", "agent.diagnose",
    "policy.init", "policy.add", "policy.remove", "policy.check",
    "agent.exec", "agent.restart",
    "task.create", "task.dispatch", "task.complete", "task.fail" }

\* the names the deploy commands hand to audit() through a cast
DeployActions == {"agent.deploy.orchestrator", "agent.deploy.worker"}

AuditEntry(id, action, agentId, success) ==
    [id |-> id, action |-> action, agentId |-> agentId, success |-> success]

\* the audit sink: the store that is set (JsonAuditStore unless setAuditStore gave the
\* DynamoAuditStore, whose table is not followed here), audit.json, whether the
\* store can be written, the randomUUID()s drawn, and the ids of the calls that returned
AuditLog(store, file, writable, seq, returned) ==
    [store |-> store, file |-> file, writable |-> writable, seq |-> seq,
     returned |-> returned]

\* AuditEntrySchema.parse of one stored item throws
SchemaRejects(item) == item.action \notin AuditAction

\* JsonAuditStore.readAll: each stored item is parsed, one rejected item rejects the read
JsonAuditStore_readAll(file) ==
    IF \E i \in 1..Len(file) : SchemaRejects(file[i])
    THEN [threw |-> TRUE, entries |-> <<>>]
    ELSE [threw |-> FALSE, entries |-> file]

\* JsonAuditStore.writeAll: writeFile of the whole array, nothing is parsed
JsonAuditStore_writeAll(log, entries) ==
    IF log.writable THEN [threw |-> FALSE, file |-> entries]
    ELSE [threw |-> TRUE, file |-> log.file]

\* JsonAuditStore.append: readAll, push, writeAll
JsonAuditStore_append(log, entry) ==
    LET r == JsonAuditStore_readAll(log.file)
    IN  IF r.threw THEN [threw |-> TRUE, file |-> log.file]
        ELSE JsonAuditStore_writeAll(log, Append(r.entries, entry))

\* audit() that lets the store's rejection reach its caller
audit_rethrow(log, action, agentId, success) ==
    IF log.store = "dynamo" THEN [threw |-> ~log.writable, log |-> log]
    ELSE LET a == JsonAuditStore_append(log,
                      AuditEntry(log.seq + 1, action, agentId, success))
         IN  [threw |-> a.threw,
              log |-> [log EXCEPT !.file = a.file, !.seq = log.seq + 1,
                                  !.returned = log.returned \cup {log.seq + 1}]]

\* audit(): the entry is built, append is awaited inside try/catch
audit(log, action, agentId, success) ==
    IF log.store = "dynamo" THEN [threw |-> FALSE, log |-> log]
    ELSE LET a == JsonAuditStore_append(log,
                      AuditEntry(log.seq + 1, action, agentId, success))
         IN  [threw |-> FALSE,
              log |-> [log EXCEPT !.file = a.file, !.seq = log.seq + 1,
                                  !.returned = log.returned \cup {log.seq + 1}]]

\* n more randomUUID() draws stay within the bound
AuditRoom(log, n) == log.store = "dynamo" \/ log.seq + n <= MaxAudit

-----------------------------------------------------------------------------
(* Dispatch channel: the drop-file protocol over SshClient *)

\* What the SSH session of one dispatch does: connect and putContent reject or
\* resolve; exec rejects, or resolves with the command's exit code (SshClient.exec
\* returns the code, it does not reject on a non-zero one)
\* (a step after a rejection does not run, so its outcome is left at "ok")
SshRun(connect, mkdir, put) == [connect |-> connect, mkdir |-> mkdir, put |-> put]
DispatchRuns == {SshRun("ok", "ok", "ok"), SshRun("throw", "ok", "ok"),
                 SshRun("ok", "throw", "ok"), SshRun("ok", "nonzero", "ok"),
                 SshRun("ok", "ok", "throw"), SshRun("ok", "nonzero", "throw")}

\* What the SSH session of one poll does: where, if anywhere, it rejects
PollRuns == {"none", "connect", "exec1", "exec2"}

\* The chunks a worker writes into an artifact
Chunks == {"x", NOT_FOUND}
Contents == SeqUpTo(Chunks, MaxContentLen)

NoFiles == [instr |-> None, result |-> None, error |-> None]

buildTaskFile(task) ==
    [title |-> task.title, id |-> task.id, status |-> task.status,
     requestedBy |-> task.requestedBy, created |-> task.createdAt,
     timeout |-> IF IsSome(task.timeoutSeconds) /\ Get(task.timeoutSeconds) # 0
                 THEN task.timeoutSeconds ELSE None,
     capabilities |-> IF IsSome(task.requiredCapabilities)
                         /\ Len(Get(task.requiredCapabilities)) > 0
                      THEN task.requiredCapabilities ELSE None,
     instructions |-> task.description]

\* dispatchViaSsh with store.update(running) moved ahead of the SSH session
dispatchViaSsh_updateFirst(ts, rem, log, task, agent, run) ==
    IF run.connect = "throw" \/ run.mkdir = "throw" \/ run.put = "throw"
    THEN [threw |-> TRUE, tasks |-> update(ts, task.id, [status |-> "running"]),
          remote |-> rem, log |-> log]
    ELSE LET a == audit(log, "task.dispatch", Some(agent.id), TRUE)
         IN  [threw |-> a.threw,
              tasks |-> update(ts, task.id, [status |-> "running"]),
              remote |-> [rem EXCEPT ![<<agent.id, task.id>>].instr =
                                          Some(buildTaskFile(task))],
              log |-> a.log]

\* dispatchViaSsh: connect, mkdir -p, putContent, then store.update(running) and
\* audit('task.dispatch'); a rejection at any step skips the rest (finally: disconnect)
dispatchViaSsh(ts, rem, log, task, agent, run) ==
    IF run.connect = "throw" \/ run.mkdir = "throw" \/ run.put = "throw"
    THEN [threw |-> TRUE, tasks |-> ts, remote |-> rem, log |-> log]
    ELSE LET a == audit(log, "task.dispatch", Some(agent.id), TRUE)
         IN  [threw |-> a.threw,
              tasks |-> update(ts, task.id, [status |-> "running"]),
              remote |-> [rem EXCEPT ![<<agent.id, task.id>>].instr =
                                          Some(buildTaskFile(task))],
              log |-> a.log]

\* stdout of `cat <file> 2>/dev/null || echo "__NOT_FOUND__"`
catOrEcho(file) == IF IsSome(file) THEN Get(file) ELSE <<NOT_FOUND, NL>>

\* pollTaskResult
pollTaskResult(rem, task, agent, run) ==
    LET files == rem[<<agent.id, task.id>>]
        resultCheck == trim(catOrEcho(files.result))
        errorCheck == trim(catOrEcho(files.error))
    IN  IF run \in {"connect", "exec1"} THEN [threw |-> TRUE]
        ELSE IF resultCheck # <<NOT_FOUND>>
             THEN [threw |-> FALSE, status |-> "completed", result |-> resultCheck]
        ELSE IF run = "exec2" THEN [threw |-> TRUE]
        ELSE IF errorCheck # <<NOT_FOUND>>
             THEN [threw |-> FALSE, status |-> "failed", error |-> errorCheck]
        ELSE [threw |-> FALSE, status |-> "running"]

\* checkOnce that takes a poll error for a failure of the task
checkOnce_failOnError(ts, rem, log, task, agent, run, t) ==
    LET r == pollTaskResult(rem, task, agent, run)
    IN  IF r.threw THEN [done |-> TRUE, report |-> "Poll error",
                         tasks |-> fail(ts, task.id, <<"Poll error">>, t), log |-> log]
        ELSE IF r.status = "completed"
             THEN [done |-> TRUE, report |-> "completed",
                   tasks |-> complete(ts, task.id, r.result, t),
                   log |-> audit(log, "task.complete", Some(agent.id), TRUE).log]
        ELSE IF r.status = "failed"
             THEN [done |-> TRUE, report |-> "failed",
                   tasks |-> fail(ts, task.id, r.error, t),
                   log |-> audit(log, "task.fail", Some(agent.id), TRUE).log]
        ELSE [done |-> FALSE, report |-> "running", tasks |-> ts, log |-> log]

\* checkOnce of `tasks poll`: the store is updated, then the outcome is audited;
\* anything thrown inside is caught and reported as a poll error
checkOnce(ts, rem, log, task, agent, run, t) ==
    LET r == pollTaskResult(rem, task, agent, run)
    IN  IF r.threw THEN [done |-> FALSE, report |-> "Poll error", tasks |-> ts,
                         log |-> log]
        ELSE IF r.status = "completed"
             THEN LET a == audit(log, "task.complete", Some(agent.id), TRUE)
                  IN  [done |-> ~a.threw,
                       report |-> IF a.threw THEN "Poll error" ELSE "completed",
                       tasks |-> complete(ts, task.id, r.result, t), log |-> a.log]
        ELSE IF r.status = "failed"
             THEN LET a == audit(log, "task.fail", Some(agent.id), TRUE)
                  IN  [done |-> ~a.threw,
                       report |-> IF a.threw THEN "Poll error" ELSE "failed",
                       tasks |-> fail(ts, task.id, r.error, t), log |-> a.log]
        ELSE [done |-> FALSE, report |-> "running", tasks |-> ts, log |-> log]

-----------------------------------------------------------------------------
(* Timeout enforcer *)

\* Math.round of a non-negative number of milliseconds taken as seconds
roundSeconds(ms) == (ms + (MS_PER_SECOND \div 2)) \div MS_PER_SECOND

timeoutMessage(timeoutSeconds, elapsedMs) ==
    <<"Timed out after ", ToString(timeoutSeconds), "s (elapsed: ",
      ToString(roundSeconds(elapsedMs)), "s)">>

\* the loop body's test without the status filter
isOverdue_anyStatus(task, t) ==
    /\ IsSome(task.timeoutSeconds) /\ Get(task.timeoutSeconds) # 0
    /\ LET startTime == IF IsSome(task.assignedAt) THEN Get(task.assignedAt)
                        ELSE task.createdAt
       IN  (t - startTime) > Get(task.timeoutSeconds) * MS_PER_SECOND

\* the loop body's test: the task is one this sweep fails
isOverdue(task, t) ==
    /\ task.status \in {"running", "assigned"}
    /\ IsSome(task.timeoutSeconds) /\ Get(task.timeoutSeconds) # 0
    /\ LET startTime == IF IsSome(task.assignedAt) THEN Get(task.assignedAt)
                        ELSE task.createdAt
       IN  (t - startTime) > Get(task.timeoutSeconds) * MS_PER_SECOND

\* enforceTimeouts: the loop over the listed tasks; each store.fail re-reads the file
\* and is followed by audit('task.fail'), which ends the loop if it throws
RECURSIVE enforceLoop(_, _, _, _, _)
enforceLoop(listed, ts, log, t, count) ==
    IF listed = <<>> THEN [tasks |-> ts, count |-> count, log |-> log, threw |-> FALSE]
    ELSE LET task == Head(listed)
             startTime == IF IsSome(task.assignedAt) THEN Get(task.assignedAt)
                          ELSE task.createdAt
             failed == fail(ts, task.id,
                            timeoutMessage(Get(task.timeoutSeconds), t - startTime), t)
             a == audit(log, "task.fail", task.assignedTo, TRUE)
         IN  IF isOverdue(task, t)
             THEN IF a.threw
                  THEN [tasks |-> failed, count |-> count, log |-> a.log, threw |-> TRUE]
                  ELSE enforceLoop(Tail(listed), failed, a.log, t, count + 1)
             ELSE enforceLoop(Tail(listed), ts, log, t, count)

enforceTimeouts(ts, log, t) == enforceLoop(ts, ts, log, t, 0)

-----------------------------------------------------------------------------
(* The `tasks` commands, one invocation at a time *)

Report(op, report, count) == [op |-> op, report |-> report, count |-> count]

\* What `tasks create` is given on its command line
TaskTexts == {
    [title |-> Str_Research, description |-> Str_fix,
     capabilities |-> Some(<<Str_research, <<WS>> \o Str_coding>>)] }
AssignOpts == {None, Some("alpha"), Some("ghost")}
TimeoutOpts == {None, Some(<<"0">>), Some(<<"5">>)}
WaitOpts == {<<"0">>, <<"1", "0">>}
ManualTexts == {<<"m">>}

\* action of `tasks create`: store.create, manual or routed assign, optional dispatch
\* (\E v \in {e} names the value of e, as a const declaration does)
CreateCmd(text, assignOpt, timeoutOpt, dispatchOpt, roster, run) ==
    /\ ~IsSome(poll)
    /\ Len(tasks) < MaxTasks
    /\ AuditRoom(auditLog, 2)
    /\ \E input \in {[title |-> text.title,
                      description |-> text.description,
                      requestedBy |-> "cli",
                      requiredCapabilities |->
                          IF IsSome(text.capabilities)
                          THEN Some([i \in 1..Len(Get(text.capabilities)) |->
                                        trim(Get(text.capabilities)[i])])
                          ELSE None,
                      timeoutSeconds |->
                          IF IsSome(timeoutOpt) /\ Get(timeoutOpt) # <<>>
                          THEN Some(parseInt(Get(timeoutOpt))) ELSE None]} :
       \E task \in {createTask(tasks, input, now)} :
       \E ts1 \in {Append(tasks, task)} :
       \E agents \in {AgentStoreList(roster)} :
       \E manual \in {IF IsSome(assignOpt) THEN AgentStoreGet(roster, Get(assignOpt))
                      ELSE None} :
       \E route \in {IF IsSome(manual) THEN None ELSE bestRoute(task, agents)} :
       \E assignedAgent \in {IF IsSome(manual) THEN manual
                             ELSE IF IsSome(route) THEN Some(Get(route).agent)
                             ELSE None} :
       \E ts2 \in {IF IsSome(manual)
                   THEN assign(ts1, task.id, Get(manual).id, Get(manual).name,
                               << <<"manually assigned">> >>, now)
                   ELSE IF IsSome(route)
                   THEN assign(ts1, task.id, Get(route).agent.id, Get(route).agent.name,
                               Get(route).reason, now)
                   ELSE ts1} :
       \E a \in {audit(auditLog, "task.create",
                       IF IsSome(assignedAgent) THEN Some(Get(assignedAgent).id) ELSE None,
                       TRUE)} :
           IF a.threw
           THEN /\ tasks' = ts2
                /\ remote' = remote
                /\ auditLog' = a.log
                /\ out' = Report("create", "audit rejected", 0)
           ELSE IF dispatchOpt /\ IsSome(assignedAgent)
           THEN \E updated \in {ts2[findIndex(ts2, task.id)]} :
                \E d \in {dispatchViaSsh(ts2, remote, a.log, updated,
                                         Get(assignedAgent), run)} :
                    /\ tasks' = d.tasks
                    /\ remote' = d.remote
                    /\ auditLog' = d.log
                    /\ out' = Report("create",
                                     IF d.threw THEN "Dispatch failed" ELSE "dispatched", 0)
           ELSE /\ tasks' = ts2
                /\ remote' = remote
                /\ auditLog' = a.log
                /\ out' = Report("create",
                                 IF IsSome(assignedAgent) THEN "assigned" ELSE "pending", 0)
    /\ UNCHANGED <<now, poll, vaultVars, routeVars, sysVars>>

\* TaskStore.assign called on a stored task (the orchestrator's assign operation)
AssignOp(id, agent) ==
    /\ ~IsSome(poll)
    /\ tasks' = assign(tasks, id, agent.id, agent.name, << <<"manually assigned">> >>, now)
    /\ out' = Report("assign", IF findIndex(tasks, id) = 0 THEN "not found" ELSE "assigned", 0)
    /\ UNCHANGED <<now, remote, poll, vaultVars, routeVars, auditLog, sysVars>>

\* action of `tasks dispatch <id>`
DispatchCmd(id, roster, run) ==
    /\ ~IsSome(poll)
    /\ AuditRoom(auditLog, 1)
    /\ \E index \in {findIndex(tasks, id)} :
       LET task == tasks[index]
           agent == AgentStoreGet(roster, Get(task.assignedTo))
       IN  IF index = 0
           THEN /\ out' = Report("dispatch", "Task not found.", 0)
                /\ UNCHANGED <<tasks, remote, auditLog>>
           ELSE IF ~IsSome(task.assignedTo)
           THEN /\ out' = Report("dispatch", "Task is not assigned to any agent.", 0)
                /\ UNCHANGED <<tasks, remote, auditLog>>
           ELSE IF task.status \in {"completed", "failed", "cancelled"}
           THEN /\ out' = Report("dispatch", "Task is already terminal.", 0)
                /\ UNCHANGED <<tasks, remote, auditLog>>
           ELSE IF ~IsSome(agent)
           THEN /\ out' = Report("dispatch", "Assigned agent not found in registry.", 0)
                /\ UNCHANGED <<tasks, remote, auditLog>>
           ELSE \E d \in {dispatchViaSsh(tasks, remote, auditLog, task, Get(agent), run)} :
                    /\ tasks' = d.tasks
                    /\ remote' = d.remote
                    /\ auditLog' = d.log
                    /\ out' = Report("dispatch",
                                     IF d.threw THEN "Dispatch failed" ELSE "dispatched", 0)
    /\ UNCHANGED <<now, poll, vaultVars, routeVars, sysVars>>

\* action of `tasks poll <id> [--wait s]`: the single check, or the start of the loop
PollCmd(id, roster, waitOpt, run) ==
    /\ ~IsSome(poll)
    /\ AuditRoom(auditLog, 1)
    /\ \E index \in {findIndex(tasks, id)}, waitSec \in {parseInt(waitOpt)} :
       LET task == tasks[index]
           agent == AgentStoreGet(roster, Get(task.assignedTo))
           deadline == now + waitSec * MS_PER_SECOND
       IN  IF index = 0
           THEN /\ out' = Report("poll", "Task not found.", 0)
                /\ UNCHANGED <<tasks, poll, auditLog>>
           ELSE IF ~IsSome(task.assignedTo)
           THEN /\ out' = Report("poll", "Task not assigned.", 0)
                /\ UNCHANGED <<tasks, poll, auditLog>>
           ELSE IF ~IsSome(agent)
           THEN /\ out' = Report("poll", "Agent not found.", 0)
                /\ UNCHANGED <<tasks, poll, auditLog>>
           ELSE IF waitSec = 0
           THEN \E c \in {checkOnce(tasks, remote, auditLog, task, Get(agent), run, now)} :
                    /\ tasks' = c.tasks
                    /\ auditLog' = c.log
                    /\ out' = Report("poll", c.report, 0)
                    /\ poll' = None
           ELSE /\ deadline <= MaxClock
                /\ poll' = Some([task |-> task, agent |-> Get(agent), deadline |-> deadline])
                /\ out' = Report("poll", "Polling", 0)
                /\ UNCHANGED <<tasks, auditLog>>
    /\ UNCHANGED <<now, remote, vaultVars, routeVars, sysVars>>

\* one turn of the polling loop: the deadline test, checkOnce, the 10 s sleep
PollIter(run) ==
    /\ IsSome(poll)
    /\ AuditRoom(auditLog, 1)
    /\ \E p \in {Get(poll)} :
       \E c \in {checkOnce(tasks, remote, auditLog, p.task, p.agent, run, now)} :
           IF now < p.deadline
           THEN /\ tasks' = c.tasks
                /\ auditLog' = c.log
                /\ out' = Report("poll", c.report, 0)
                /\ IF c.done
                   THEN poll' = None /\ now' = now
                   ELSE poll' = poll /\ now' = now + POLL_INTERVAL_MS
           ELSE /\ out' = Report("poll", "Timeout reached. Task still running.", 0)
                /\ poll' = None
                /\ UNCHANGED <<tasks, now, auditLog>>
    /\ UNCHANGED <<remote, vaultVars, routeVars, sysVars>>

\* action of `tasks complete <id> --result r`
CompleteCmd(id, result) ==
    /\ ~IsSome(poll)
    /\ tasks' = complete(tasks, id, result, now)
    /\ out' = Report("complete",
                     IF findIndex(tasks, id) = 0 THEN "Task not found." ELSE "Task completed.", 0)
    /\ UNCHANGED <<now, remote, poll, vaultVars, routeVars, auditLog, sysVars>>

\* action of `tasks fail <id> --error e`
FailCmd(id, error) ==
    /\ ~IsSome(poll)
    /\ tasks' = fail(tasks, id, error, now)
    /\ out' = Report("fail",
                     IF findIndex(tasks, id) = 0 THEN "Task not found."
                     ELSE "Task marked as failed.", 0)
    /\ UNCHANGED <<now, remote, poll, vaultVars, routeVars, auditLog, sysVars>>

\* action of `tasks cancel <id>`
CancelCmd(id) ==
    /\ ~IsSome(poll)
    /\ tasks' = update(tasks, id, [status |-> "cancelled", completedAt |-> Some(now)])
    /\ out' = Report("cancel",
                     IF findIndex(tasks, id) = 0 THEN "Task not found." ELSE "Task cancelled.", 0)
    /\ UNCHANGED <<now, remote, poll, vaultVars, routeVars, auditLog, sysVars>>

\* action of `tasks sweep`
SweepCmd ==
    /\ ~IsSome(poll)
    /\ AuditRoom(auditLog, Len(tasks))
    /\ \E r \in {enforceTimeouts(tasks, auditLog, now)} :
           /\ tasks' = r.tasks
           /\ auditLog' = r.log
           /\ out' = Report("sweep", IF r.threw THEN "audit rejected" ELSE "swept", r.count)
    /\ UNCHANGED <<now, remote, poll, vaultVars, routeVars, sysVars>>

\* the wall clock advances between two invocations
Tick ==
    /\ ~IsSome(poll)
    /\ now + POLL_INTERVAL_MS <= MaxClock
    /\ now' = now + POLL_INTERVAL_MS
    /\ out' = Report("tick", "", 0)
    /\ UNCHANGED <<tasks, remote, poll, vaultVars, routeVars, auditLog, sysVars>>

\* the worker that holds a task's instruction file writes one of its artifacts
WorkerWrite(agentId, id, kind, content) ==
    /\ IsSome(remote[<<agentId, id>>].instr)
    /\ ~IsSome(remote[<<agentId, id>>][kind])
    /\ remote' = [remote EXCEPT ![<<agentId, id>>][kind] = Some(content)]
    /\ UNCHANGED <<tasks, now, out, poll, vaultVars, routeVars, auditLog, sysVars>>

-----------------------------------------------------------------------------
(* Secret vault: SecretVault over ~/.clawctl/secrets.json *)

CHECK_PLAINTEXT == "clawctl-vault-check"
INVALID_PASSWORD == "Invalid master password."
DECRYPT_ERROR == "Unsupported state or unable to authenticate data"

\* What the vault operations are given
Passwords == {"pw", "other"}
Keys == {"A", "B", "__proto__"}
Values == {"v1", "v2"}
Scopes == {None, Some("a1")}
ScopeFilters == {None, Some("a1"), Some("a2")}

\* scryptSync(password, salt, KEY_LENGTH): one key per (password, salt)
deriveKey(password, salt) == <<password, salt>>

\* The GCM authentication tag: a MAC over the key, the IV and the ciphertext,
\* of which the first len bytes are kept
TAG_LENGTH == 16
AuthTag(key, iv, data, len) == [mac |-> <<key, iv, data>>, len |-> len]

\* The tag lengths decipher.setAuthTag accepts when createDecipheriv was given
\* no authTagLength: it compares as many bytes as the tag it was handed has
ValidTagLengths == {4, 8, 12, 13, 14, 15, 16}

\* AES-256-GCM under a fresh IV: the payload opens under the key that sealed it
\* (cipher.getAuthTag() is the full tag)
encrypt(plaintext, key, iv) ==
    [data |-> plaintext, key |-> key, iv |-> iv,
     tag |-> AuthTag(key, iv, plaintext, TAG_LENGTH)]

\* decrypt that does not verify the tag
decrypt_noAuth(payload, key) == [threw |-> FALSE, plaintext |-> payload.data]

\* decrypt: setAuthTag throws on a tag of invalid length, decipher.final()
\* throws when the tag does not verify under the key, the IV and the ciphertext
decrypt(payload, key) ==
    IF payload.tag.len \notin ValidTagLengths THEN [threw |-> TRUE]
    ELSE IF payload.key = key /\ payload.tag.mac = <<key, payload.iv, payload.data>>
         THEN [threw |-> FALSE, plaintext |-> payload.data]
         ELSE [threw |-> TRUE]

\* A JavaScript object as the vault code sees it: its own properties in
\* insertion order, and its prototype (Object.prototype for a parsed or literal
\* object, until something assigns to __proto__)
OBJECT_PROTOTYPE == [value |-> None, agentId |-> None]
InheritedNames == {"constructor", "toString", "hasOwnProperty", "valueOf"}

\* { value, agentId }
Entry(value, agentId) == [value |-> Some(value), agentId |-> agentId]

\* {}
EmptyObject == [own |-> <<>>, proto |-> OBJECT_PROTOTYPE]

\* JSON.parse(plaintext) as SecretsMap
JSONparse(text) == [own |-> text, proto |-> OBJECT_PROTOTYPE]

\* JSON.stringify(secrets): the own enumerable properties, in order
JSONstringify(obj) == obj.own

OwnIndex(obj, key) ==
    IF \E i \in 1..Len(obj.own) : obj.own[i].key = key
    THEN CHOOSE i \in 1..Len(obj.own) : obj.own[i].key = key
    ELSE 0

\* secrets[key] = entry: the __proto__ setter replaces the prototype, any other
\* key creates or overwrites an own property
PropSet(obj, key, entry) ==
    IF key = "__proto__" THEN [obj EXCEPT !.proto = entry]
    ELSE IF OwnIndex(obj, key) # 0
         THEN [obj EXCEPT !.own[OwnIndex(obj, key)] = [key |-> key, entry |-> entry]]
         ELSE [obj EXCEPT !.own = Append(obj.own, [key |-> key, entry |-> entry])]

\* secrets[key]: an own property, else what the prototype chain gives
\* (<<>> is undefined)
PropGet(obj, key) ==
    IF key = "__proto__" THEN Some(obj.proto)
    ELSE IF OwnIndex(obj, key) # 0 THEN Some(obj.own[OwnIndex(obj, key)].entry)
    ELSE IF key \in InheritedNames THEN Some(OBJECT_PROTOTYPE)
    ELSE None

\* key in secrets
PropIn(obj, key) ==
    key = "__proto__" \/ OwnIndex(obj, key) # 0 \/ key \in InheritedNames

\* delete secrets[key]: removes an own property, nothing else
PropDelete(obj, key) ==
    [obj EXCEPT !.own = SelectSeq(obj.own, LAMBDA p : p.key # key)]

\* SecretVault.load
load(file, handle) ==
    LET d == decrypt(file.payload, handle.key)
    IN  IF d.threw THEN [threw |-> TRUE]
        ELSE [threw |-> FALSE, secrets |-> JSONparse(d.plaintext)]

\* SecretVault.save: payload and check value sealed under fresh IVs
save(handle, secrets, n) ==
    [salt |-> handle.salt,
     payload |-> encrypt(JSONstringify(secrets), handle.key, n),
     check |-> encrypt(CHECK_PLAINTEXT, handle.key, n + 1)]

\* get that applies no scope filter
get_ignoreScope(secrets, key, agentId) == PropGet(secrets, key)

\* SecretVault.get on the loaded map
get(secrets, key, agentId) ==
    LET entry == PropGet(secrets, key)
    IN  IF ~IsSome(entry) THEN None
        ELSE IF IsSome(agentId) /\ IsSome(Get(entry).agentId)
                /\ Get(entry).agentId # agentId THEN None
        ELSE entry

\* list that maps each entry to all of its fields
list_withValues(secrets, agentId) ==
    LET kept == SelectSeq(secrets.own,
                    LAMBDA p : ~IsSome(agentId) \/ ~IsSome(p.entry.agentId)
                               \/ p.entry.agentId = agentId)
    IN  [i \in 1..Len(kept) |-> [key |-> kept[i].key, agentId |-> kept[i].entry.agentId,
                                 value |-> kept[i].entry.value]]

\* SecretVault.list on the loaded map
list(secrets, agentId) ==
    LET kept == SelectSeq(secrets.own,
                    LAMBDA p : ~IsSome(agentId) \/ ~IsSome(p.entry.agentId)
                               \/ p.entry.agentId = agentId)
    IN  [i \in 1..Len(kept) |-> [key |-> kept[i].key, agentId |-> kept[i].entry.agentId]]

\* getAgentEnvEntries that exports every entry
getAgentEnvEntries_all(secrets, agentId) ==
    [i \in 1..Len(secrets.own) |->
        [key |-> secrets.own[i].key, value |-> secrets.own[i].entry.value]]

\* SecretVault.getAgentEnvEntries on the loaded map: Object.entries visits the
\* own properties in insertion order
getAgentEnvEntries(secrets, agentId) ==
    LET kept == SelectSeq(secrets.own,
                    LAMBDA p : ~IsSome(p.entry.agentId) \/ Get(p.entry.agentId) = agentId)
    IN  [i \in 1..Len(kept) |-> [key |-> kept[i].key, value |-> kept[i].entry.value]]

\* the agents secrets can be pushed to
ExportIds == {"a1", "a2"}

\* what an operation gave back: the message of the error it threw ("" when it
\* returned), and the value it returned
VaultReport(op, error, result) == [op |-> op, error |-> error, result |-> result]

\* SecretVault.open(password)
VaultOpen(password) ==
    /\ ~IsSome(vault)
    /\ IF IsSome(vaultFile)
       THEN \E key \in {deriveKey(password, Get(vaultFile).salt)} :
            \E c \in {decrypt(Get(vaultFile).check, key)} :
               IF c.threw \/ c.plaintext # CHECK_PLAINTEXT
               THEN /\ vout' = VaultReport("open", INVALID_PASSWORD, None)
                    /\ UNCHANGED <<vault, vaultFile, nonce>>
               ELSE /\ vault' = Some([key |-> key, salt |-> Get(vaultFile).salt])
                    /\ vout' = VaultReport("open", "", None)
                    /\ UNCHANGED <<vaultFile, nonce>>
       ELSE \E handle \in {[key |-> deriveKey(password, nonce), salt |-> nonce]} :
               /\ vaultFile' = Some(save(handle, EmptyObject, nonce + 1))
               /\ vault' = Some(handle)
               /\ nonce' = nonce + 3
               /\ vout' = VaultReport("open", "", None)
    /\ UNCHANGED <<taskVars, routeVars, auditLog, sysVars>>

\* SecretVault.set(key, value, agentId)
VaultSet(key, value, agentId) ==
    /\ IsSome(vault) /\ IsSome(vaultFile)
    /\ nonce < MaxNonce
    /\ \E l \in {load(Get(vaultFile), Get(vault))} :
          IF l.threw
          THEN /\ vout' = VaultReport("set", DECRYPT_ERROR, None)
               /\ UNCHANGED <<vaultFile, nonce>>
          ELSE /\ vaultFile' = Some(save(Get(vault),
                                         PropSet(l.secrets, key, Entry(value, agentId)),
                                         nonce))
               /\ nonce' = nonce + 2
               /\ vout' = VaultReport("set", "", None)
    /\ UNCHANGED <<vault, taskVars, routeVars, auditLog, sysVars>>

\* SecretVault.get(key, agentId)
VaultGet(key, agentId) ==
    /\ IsSome(vault) /\ IsSome(vaultFile)
    /\ \E l \in {load(Get(vaultFile), Get(vault))} :
          vout' = IF l.threw THEN VaultReport("get", DECRYPT_ERROR, None)
                  ELSE VaultReport("get", "", get(l.secrets, key, agentId))
    /\ UNCHANGED <<vault, vaultFile, nonce, taskVars, routeVars, auditLog, sysVars>>

\* SecretVault.list(agentId)
VaultList(agentId) ==
    /\ IsSome(vault) /\ IsSome(vaultFile)
    /\ \E l \in {load(Get(vaultFile), Get(vault))} :
          vout' = IF l.threw THEN VaultReport("list", DECRYPT_ERROR, None)
                  ELSE VaultReport("list", "", list(l.secrets, agentId))
    /\ UNCHANGED <<vault, vaultFile, nonce, taskVars, routeVars, auditLog, sysVars>>

\* SecretVault.getAgentEnvEntries(agentId)
VaultExport(agentId) ==
    /\ IsSome(vault) /\ IsSome(vaultFile)
    /\ \E l \in {load(Get(vaultFile), Get(vault))} :
          vout' = IF l.threw THEN VaultReport("export", DECRYPT_ERROR, None)
                  ELSE VaultReport("export", "", getAgentEnvEntries(l.secrets, agentId))
    /\ UNCHANGED <<vault, vaultFile, nonce, taskVars, routeVars, auditLog, sysVars>>

\* SecretVault.delete(key)
VaultDelete(key) ==
    /\ IsSome(vault) /\ IsSome(vaultFile)
    /\ nonce < MaxNonce
    /\ \E l \in {load(Get(vaultFile), Get(vault))} :
          IF l.threw
          THEN /\ vout' = VaultReport("delete", DECRYPT_ERROR, None)
               /\ UNCHANGED <<vaultFile, nonce>>
          ELSE IF ~PropIn(l.secrets, key)
          THEN /\ vout' = VaultReport("delete", "", Some(FALSE))
               /\ UNCHANGED <<vaultFile, nonce>>
          ELSE /\ vaultFile' = Some(save(Get(vault), PropDelete(l.secrets, key), nonce))
               /\ nonce' = nonce + 2
               /\ vout' = VaultReport("delete", "", Some(TRUE))
    /\ UNCHANGED <<vault, taskVars, routeVars, auditLog, sysVars>>

\* Someone with write access to secrets.json alters one stored ciphertext, IV
\* or tag (of a part that is as save wrote it)
TamperParts == {"payload", "check"}
TamperKinds == {"data", "iv", "tag", "truncate", "cut"}

Garbled(part, data) ==
    IF part = "check" THEN "garbled"
    ELSE Append(data, [key |-> "garbled", entry |-> Entry("garbled", None)])

Altered(c, part, kind) ==
    CASE kind = "data" -> [c EXCEPT !.data = Garbled(part, c.data)]
      [] kind = "iv" -> [c EXCEPT !.iv = 0 - 1]
      [] kind = "tag" -> [c EXCEPT !.tag.mac = <<c.key, 0 - 1, c.data>>]
      [] kind = "truncate" -> [c EXCEPT !.tag.len = 4]
      [] kind = "cut" -> [c EXCEPT !.tag.len = 3]

\* the stored part is what encrypt produced
AsSaved(c) == c = encrypt(c.data, c.key, c.iv)

Tamper(part, kind) ==
    /\ IsSome(vaultFile)
    /\ AsSaved(Get(vaultFile)[part])
    /\ vaultFile' = Some([Get(vaultFile) EXCEPT ![part] = Altered(@, part, kind)])
    /\ UNCHANGED <<vault, vout, nonce, taskVars, routeVars, auditLog, sysVars>>

\* the process that held the vault object ends
VaultClose ==
    /\ IsSome(vault)
    /\ vault' = None
    /\ vout' = VaultReport("close", "", None)
    /\ UNCHANGED <<vaultFile, nonce, taskVars, routeVars, auditLog, sysVars>>

-----------------------------------------------------------------------------
(* Routing: routeTask applied to a task and a roster its caller holds *)

Str_notes == <<"n", "o", "t", "e", "s">>

\* The agents a roster can hold (the caller gives each its id and name)
AgentProfiles == {
    [status |-> "online", role |-> "worker",
     capabilities |-> <<Str_research>>, sessionKey |-> "s1"],
    [status |-> "online", role |-> "orchestrator",
     capabilities |-> <<Str_research>>, sessionKey |-> "s1",
     description |-> Str_Research \o <<WS>> \o Str_notes],
    [status |-> "offline", role |-> "worker",
     capabilities |-> <<Str_research>>, sessionKey |-> "s1",
     description |-> Str_Research \o <<WS>> \o Str_notes],
    [status |-> "degraded", role |-> "worker"],
    [status |-> "degraded", role |-> "worker",
     capabilities |-> <<Str_Research, Str_coding>>,
     description |-> Str_Research \o <<WS>> \o Str_notes],
    [status |-> "online", role |-> "worker"] }

RouteIds == <<"a1", "a2", "a3", "a4">>

WithId(profile, i) ==
    [k \in (DOMAIN profile) \cup {"id", "name"} |->
        IF k \in {"id", "name"} THEN RouteIds[i] ELSE profile[k]]

RouteRosters ==
    UNION {{[i \in 1..k |-> WithId(f[i], i)] : f \in [1..k -> AgentProfiles]}
              : k \in 0..MaxRoster}

\* The tasks a caller routes
RouteTasks == {
    [title |-> Str_Research, description |-> Str_fix,
     requiredCapabilities |-> Some(<<Str_research>>)],
    [title |-> Str_Research, description |-> Str_research \o <<WS>> \o Str_notes,
     requiredCapabilities |-> None],
    [title |-> Str_fix, description |-> Str_fix,
     requiredCapabilities |-> None],
    [title |-> Str_coding, description |-> Str_fix,
     requiredCapabilities |-> Some(<<Str_research, Str_coding, Str_research>>)] }

Routed(op, task, agents, results, best, n) ==
    [op |-> op, task |-> task, agents |-> agents, results |-> results,
     best |-> best, n |-> n]

\* a caller routes the task it holds over the roster it holds:
\* routeTask(task, agents) and bestRoute(task, agents)
RouteCall ==
    /\ routed.op \in {"input", "route"}
    /\ routed.n < MaxCalls
    /\ routed' = Routed("route", routed.task, routed.agents,
                        routeTask(routed.task, routed.agents),
                        bestRoute(routed.task, routed.agents), routed.n + 1)
    /\ UNCHANGED <<taskVars, vaultVars, auditLog, sysVars>>

\* action of `tasks route`: the dry run over the roster on disk
RouteCmd(text, roster) ==
    /\ routed.n < MaxCalls
    /\ \E agents \in {AgentStoreList(roster)} :
       \E fakeTask \in {[id |-> "", title |-> text.title,
                         description |-> text.description,
                         requestedBy |-> "cli", status |-> "pending", createdAt |-> "",
                         requiredCapabilities |->
                             IF IsSome(text.capabilities)
                             THEN Some([i \in 1..Len(Get(text.capabilities)) |->
                                           trim(Get(text.capabilities)[i])])
                             ELSE None]} :
          routed' = Routed("cli", fakeTask, agents, routeTask(fakeTask, agents),
                           None, routed.n + 1)
    /\ UNCHANGED <<taskVars, vaultVars, auditLog, sysVars>>

-----------------------------------------------------------------------------
(* Policy engine: PolicyEngine over ~/.clawctl/policy.json *)

\* An action name or pattern is the sequence of its dot-separated segments:
\* "secrets.push" is <<"secrets", "push">>, "agent.*" is <<"agent", "*">>
PolicyCondition(field, op, value) == [field |-> field, op |-> op, value |-> value]

PolicyRule(id, action, effect, conditions, requireConfirmation) ==
    [id |-> id, action |-> action, effect |-> effect, conditions |-> conditions,
     requireConfirmation |-> requireConfirmation]

PolicyFile(defaultEffect, rules) == [defaultEffect |-> defaultEffect, rules |-> rules]

DEFAULT_POLICY ==
    PolicyFile("allow", <<
        PolicyRule("deny-remove-orchestrator", <<"agent", "remove">>, "allow",
                   Some(<<PolicyCondition("role", "eq", <<"orchestrator">>)>>), Some(TRUE)),
        PolicyRule("deny-secrets-push-unknown", <<"secrets", "push">>, "deny",
                   Some(<<PolicyCondition("status", "eq", <<"unknown">>)>>), None) >>)

\* pattern.endsWith('.*'): the last segment is "*" and a segment precedes it
EndsWithDotStar(pattern) == Len(pattern) >= 2 /\ pattern[Len(pattern)] = "*"

\* action.startsWith(prefix + '.')
StartsWithDot(action, prefix) ==
    /\ Len(action) > Len(prefix)
    /\ SubSeq(action, 1, Len(prefix)) = prefix

matchAction(pattern, action) ==
    IF pattern = <<"*">> THEN TRUE
    ELSE IF pattern = action THEN TRUE
    ELSE IF EndsWithDotStar(pattern)
         THEN StartsWithDot(action, SubSeq(pattern, 1, Len(pattern) - 1))
    ELSE FALSE

\* [String(raw ?? '')] of a scalar field: an agent has no array field here
FieldVal(agent, field) == IF field \in DOMAIN agent THEN <<agent[field]>> ELSE <<"">>

\* the condition's value is a list when it held a comma, else it is wrapped in one
evaluateCondition(cond, agent) ==
    LET fieldVal == FieldVal(agent, cond.field)
        compareVals == cond.value
    IN  CASE cond.op = "eq" -> Len(fieldVal) = 1 /\ fieldVal[1] = compareVals[1]
          [] cond.op = "neq" -> Len(fieldVal) = 1 /\ fieldVal[1] # compareVals[1]
          [] cond.op = "in" -> Len(fieldVal) = 1 /\ InSeq(fieldVal[1], compareVals)
          [] cond.op = "notIn" -> Len(fieldVal) = 1 /\ ~InSeq(fieldVal[1], compareVals)
          [] cond.op = "contains" ->
                 \E i \in 1..Len(compareVals) : InSeq(compareVals[i], fieldVal)
          [] OTHER -> FALSE

evaluateRule(rule, action, agent) ==
    IF ~matchAction(rule.action, action) THEN FALSE
    ELSE IF ~IsSome(rule.conditions) \/ Get(rule.conditions) = <<>> THEN TRUE
    ELSE IF ~IsSome(agent) THEN FALSE
    ELSE \A i \in 1..Len(Get(rule.conditions)) :
             evaluateCondition(Get(rule.conditions)[i], Get(agent))

PolicyDecision(allowed, matchedRule, requireConfirmation) ==
    [allowed |-> allowed, matchedRule |-> matchedRule,
     requireConfirmation |-> requireConfirmation]

\* PolicyEngine.load: the default policy when there is no file
PolicyLoad(file) == IF IsSome(file) THEN Get(file) ELSE DEFAULT_POLICY

\* evaluate that lets the last matching rule decide
evaluate_lastMatch(pol, action, agent) ==
    LET hits == SelectSeq(pol.rules, LAMBDA r : evaluateRule(r, action, agent))
    IN  IF hits = <<>>
        THEN PolicyDecision(pol.defaultEffect = "allow", None, FALSE)
        ELSE LET rule == hits[Len(hits)]
             IN  PolicyDecision(rule.effect = "allow", Some(rule),
                                IF IsSome(rule.requireConfirmation)
                                THEN Get(rule.requireConfirmation) ELSE FALSE)

\* PolicyEngine.evaluate: the loop returns at the first rule evaluateRule accepts
RECURSIVE evaluateFrom(_, _, _, _)
evaluateFrom(rules, defaultEffect, action, agent) ==
    IF rules = <<>> THEN PolicyDecision(defaultEffect = "allow", None, FALSE)
    ELSE IF evaluateRule(Head(rules), action, agent)
         THEN PolicyDecision(Head(rules).effect = "allow", Some(Head(rules)),
                             IF IsSome(Head(rules).requireConfirmation)
                             THEN Get(Head(rules).requireConfirmation) ELSE FALSE)
    ELSE evaluateFrom(Tail(rules), defaultEffect, action, agent)

evaluate(pol, action, agent) == evaluateFrom(pol.rules, pol.defaultEffect, action, agent)

addRule(pol, rule) ==
    [pol EXCEPT !.rules = Append(SelectSeq(pol.rules, LAMBDA r : r.id # rule.id), rule)]

removeRule(pol, id) ==
    LET kept == SelectSeq(pol.rules, LAMBDA r : r.id # id)
    IN  [policy |-> [pol EXCEPT !.rules = kept], removed |-> Len(kept) < Len(pol.rules)]

\* enforcePolicy: load, evaluate, and on a denial audit('policy.check')
enforcePolicy(file, log, action, agent) ==
    LET decision == evaluate(PolicyLoad(file), action, agent)
        a == audit(log, "policy.check",
                   IF IsSome(agent) THEN Some(Get(agent).id) ELSE None, TRUE)
    IN  IF ~decision.allowed
        THEN [threw |-> a.threw, allowed |-> FALSE, requireConfirmation |-> FALSE,
              log |-> a.log]
        ELSE [threw |-> FALSE, allowed |-> TRUE,
              requireConfirmation |-> decision.requireConfirmation, log |-> log]

\* What the policy commands are given on their command line
WorkerOnly == Some(<<PolicyCondition("role", "eq", <<"worker">>)>>)
ReachableWorker ==
    Some(<<PolicyCondition("role", "neq", <<"orchestrator">>),
           PolicyCondition("status", "in", <<"online", "degraded">>)>>)
AddedRules == {
    PolicyRule("r1", <<"*">>, "deny", None, None),
    PolicyRule("r1", <<"secrets", "*">>, "allow", ReachableWorker, Some(TRUE)),
    PolicyRule("r1", <<"secrets", "push">>, "deny", WorkerOnly, None),
    PolicyRule("r1", <<"secrets", "push">>, "allow", None, None),
    PolicyRule("r1", <<"secrets", "push">>, "block", None, None),
    PolicyRule("deny-secrets-push-unknown", <<"secrets", "push">>, "allow", WorkerOnly,
               Some(TRUE)),
    PolicyRule("deny-secrets-push-unknown", <<"*">>, "deny", ReachableWorker, None) }
RuleIds == {r.id : r \in AddedRules}
CheckedActions == {<<"secrets", "push">>, <<"secrets">>, <<"agent", "remove">>}
CheckedAgents == {None, Some("alpha"), Some("beta"), Some("boss"), Some("ghost")}

PolicyOut(op, report, decision) == [op |-> op, report |-> report, decision |-> decision]

\* action of `policy init`: init() writes the default policy when there is no file,
\* then save() writes the loaded policy
PolicyInitCmd ==
    /\ AuditRoom(auditLog, 1)
    /\ policy' = Some(PolicyLoad(policy))
    /\ \E a \in {audit(auditLog, "policy.init", None, TRUE)} :
           /\ pout' = PolicyOut("init", IF a.threw THEN "audit rejected"
                                        ELSE "Policy file written", None)
           /\ auditLog' = a.log
    /\ UNCHANGED <<taskVars, vaultVars, routeVars, pushed, inflight, fleet, ws>>

\* action of `policy add --id --action --effect [--condition...] [--require-confirmation]`
PolicyAddCmd(id, action, effect, conditions, confirm) ==
    /\ AuditRoom(auditLog, 1)
    /\ IF effect \notin {"allow", "deny"}
       THEN /\ pout' = PolicyOut("add", "Effect must be allow or deny", None)
            /\ UNCHANGED <<policy, auditLog>>
       ELSE /\ policy' = Some(addRule(PolicyLoad(policy),
                                      PolicyRule(id, action, effect, conditions, confirm)))
            /\ \E a \in {audit(auditLog, "policy.add", None, TRUE)} :
                   /\ pout' = PolicyOut("add", IF a.threw THEN "audit rejected"
                                               ELSE "Rule added", None)
                   /\ auditLog' = a.log
    /\ UNCHANGED <<taskVars, vaultVars, routeVars, pushed, inflight, fleet, ws>>

\* action of `policy remove <id>`
PolicyRemoveCmd(id) ==
    /\ AuditRoom(auditLog, 1)
    /\ \E r \in {removeRule(PolicyLoad(policy), id)} :
           IF r.removed
           THEN /\ policy' = Some(r.policy)
                /\ \E a \in {audit(auditLog, "policy.remove", None, TRUE)} :
                       /\ pout' = PolicyOut("remove", IF a.threw THEN "audit rejected"
                                                      ELSE "Rule removed", None)
                       /\ auditLog' = a.log
           ELSE /\ pout' = PolicyOut("remove", "Rule not found", None)
                /\ UNCHANGED <<policy, auditLog>>
    /\ UNCHANGED <<taskVars, vaultVars, routeVars, pushed, inflight, fleet, ws>>

\* action of `policy check <action> [agent-id]`
PolicyCheckCmd(action, agentId, roster) ==
    /\ \E agent \in {IF IsSome(agentId) THEN AgentStoreGet(roster, Get(agentId))
                     ELSE None} :
           IF IsSome(agentId) /\ ~IsSome(agent)
           THEN pout' = PolicyOut("check", "Agent not found", None)
           ELSE pout' = PolicyOut("check", "checked",
                                  Some([action |-> action, agent |-> agent,
                                        result |-> evaluate(PolicyLoad(policy), action,
                                                            agent)]))
    /\ UNCHANGED <<taskVars, vaultVars, routeVars, auditLog, policy, pushed, inflight,
                   fleet, ws>>

-----------------------------------------------------------------------------
(* `secrets push <agent-id>`: the vault's entries for one agent written to its .env *)

\* What the SSH session of one push does: connect and putContent reject or resolve
PushRun(connect, put) == [connect |-> connect, put |-> put]
PushRuns == {PushRun("ok", "ok"), PushRun("throw", "ok"), PushRun("ok", "throw")}

\* the steps the last push took, in order, and the .env file of each worker
Pushed(trace, env) == [trace |-> trace, env |-> env]

\* --merge: a line of the existing .env whose key the vault holds takes the vault's
\* value, the other lines stay, the vault's other keys are appended
mergeEnv(existing, entries) ==
    LET held(k) == \E i \in 1..Len(entries) : entries[i].key = k
        valueOf(k) == entries[CHOOSE i \in 1..Len(entries) : entries[i].key = k].value
        present(k) == \E i \in 1..Len(existing) : existing[i].key = k
    IN  [i \in 1..Len(existing) |->
            IF held(existing[i].key)
            THEN [key |-> existing[i].key, value |-> valueOf(existing[i].key)]
            ELSE existing[i]]
        \o SelectSeq(entries, LAMBDA e : ~present(e.key))

\* action of `secrets push <agent-id> [--merge]`
SecretsPushCmd(agentId, roster, merge, run) ==
    /\ IsSome(vault) /\ IsSome(vaultFile)
    /\ AuditRoom(auditLog, 1)
    /\ \E agent \in {AgentStoreGet(roster, agentId)} :
       \E l \in {load(Get(vaultFile), Get(vault))} :
       \E entries \in {IF l.threw THEN <<>> ELSE getAgentEnvEntries(l.secrets, agentId)} :
       \E gate \in {enforcePolicy(policy, auditLog, <<"secrets", "push">>, agent)} :
           IF ~IsSome(agent)
           THEN /\ vout' = VaultReport("push", "Agent not found", None)
                /\ pushed' = [pushed EXCEPT !.trace = <<>>]
                /\ UNCHANGED auditLog
           ELSE IF l.threw
           THEN /\ vout' = VaultReport("push", DECRYPT_ERROR, None)
                /\ pushed' = [pushed EXCEPT !.trace = <<>>]
                /\ UNCHANGED auditLog
           ELSE IF entries = <<>>
           THEN /\ vout' = VaultReport("push", "No secrets to push", None)
                /\ pushed' = [pushed EXCEPT !.trace = <<>>]
                /\ UNCHANGED auditLog
           ELSE IF gate.threw
           THEN /\ vout' = VaultReport("push", "audit rejected", None)
                /\ pushed' = [pushed EXCEPT !.trace = <<"gate">>]
                /\ auditLog' = gate.log
           ELSE IF ~gate.allowed
           THEN /\ vout' = VaultReport("push", "Policy denied", None)
                /\ pushed' = [pushed EXCEPT !.trace = <<"gate">>]
                /\ auditLog' = gate.log
           ELSE IF run.connect = "throw"
           THEN /\ vout' = VaultReport("push", "connect failed", None)
                /\ pushed' = [pushed EXCEPT !.trace = <<"gate", "connect">>]
                /\ auditLog' = gate.log
           ELSE \E existing \in {IF IsSome(pushed.env[Get(agent).id])
                                 THEN Get(pushed.env[Get(agent).id]) ELSE <<>>} :
                \E envContent \in {IF merge THEN mergeEnv(existing, entries)
                                   ELSE entries} :
                \E steps \in {IF merge THEN <<"gate", "connect", "cat", "mkdir", "put">>
                              ELSE <<"gate", "connect", "mkdir", "put">>} :
                   IF run.put = "throw"
                   THEN /\ vout' = VaultReport("push", "put failed", None)
                        /\ pushed' = [pushed EXCEPT !.trace = steps]
                        /\ auditLog' = gate.log
                   ELSE /\ vout' = VaultReport("push", "", entries)
                        /\ pushed' = Pushed(Append(steps, "restart"),
                                            [pushed.env EXCEPT ![Get(agent).id] =
                                                                   Some(envContent)])
                        /\ auditLog' = gate.log
    /\ UNCHANGED <<vault, vaultFile, nonce, taskVars, routeVars, policy, pout, inflight,
                   fleet, ws>>

\* the last step of a deploy that succeeded (`agents deploy`, the wizard):
\* audit() is handed the deploy's own action name
DeployAuditCmd(action, agentId) ==
    /\ AuditRoom(auditLog, 1)
    /\ \E a \in {audit(auditLog, action, Some(agentId), TRUE)} :
           /\ pout' = PolicyOut("deploy", IF a.threw THEN "Deploy failed" ELSE "deployed",
                                None)
           /\ auditLog' = a.log
    /\ UNCHANGED <<taskVars, vaultVars, routeVars, policy, pushed, inflight, fleet, ws>>

\* the audit store stops or starts accepting writes (permissions of ~/.clawctl,
\* a full disk, the table's endpoint)
AuditStoreToggle ==
    /\ auditLog' = [auditLog EXCEPT !.writable = ~auditLog.writable]
    /\ UNCHANGED <<taskVars, vaultVars, routeVars, sysVars>>

-----------------------------------------------------------------------------
(* Calls in progress: what runs between the awaits of two overlapping calls *)

\* two calls at a time: two invocations of the CLI, or two promises of one process
Procs == {1, 2}
Idle == [pc |-> "idle"]

\* the calls in progress, the randomUUID()s drawn for tasks, and the ids of the
\* tasks that TaskStore.create has returned
Inflight(calls, uuids, returned) ==
    [calls |-> calls, uuids |-> uuids, returned |-> returned]
Call(p) == inflight.calls[p]

\* the action names of the audit() calls followed here
AuditedActions == {"task.create", "policy.check"} \cup DeployActions

\* audit() up to the await inside append: the entry is built and readAll has run;
\* a rejected read ends the call at once, in the catch
AuditBegin(p, action, agentId) ==
    /\ Call(p) = Idle
    /\ auditLog.store = "json"
    /\ auditLog.seq < MaxAudit
    /\ \E entry \in {AuditEntry(auditLog.seq + 1, action, agentId, TRUE)} :
       \E r \in {JsonAuditStore_readAll(auditLog.file)} :
           IF r.threw
           THEN /\ auditLog' = [auditLog EXCEPT !.seq = auditLog.seq + 1,
                                    !.returned = auditLog.returned \cup {entry.id}]
                /\ UNCHANGED inflight
           ELSE /\ auditLog' = [auditLog EXCEPT !.seq = auditLog.seq + 1]
                /\ inflight' = [inflight EXCEPT !.calls[p] =
                                   [pc |-> "append", entries |-> r.entries,
                                    entry |-> entry]]
    /\ UNCHANGED <<taskVars, vaultVars, routeVars, policy, pout, pushed, fleet, ws>>

\* the rest of the call: push, writeAll, and audit() returns
AuditEnd(p) ==
    /\ Call(p).pc = "append"
    /\ \E w \in {JsonAuditStore_writeAll(auditLog,
                     Append(Call(p).entries, Call(p).entry))} :
           auditLog' = [auditLog EXCEPT !.file = w.file,
                            !.returned = auditLog.returned \cup {Call(p).entry.id}]
    /\ inflight' = [inflight EXCEPT !.calls[p] = Idle]
    /\ UNCHANGED <<taskVars, vaultVars, routeVars, policy, pout, pushed, fleet, ws>>

\* What the overlapping task commands are given
RaceInput ==
    [title |-> Str_Research, description |-> Str_fix, requestedBy |-> "cli",
     requiredCapabilities |-> None, timeoutSeconds |-> Some(5)]
StoreOps == {"assign", "complete", "fail", "cancel"}

\* the array a TaskStore method builds from the array it read
Updated(op, read, id, t) ==
    CASE op = "assign" ->
             assign(read, id, "a1", "alpha", << <<"manually assigned">> >>, t)
      [] op = "complete" -> complete(read, id, <<"m">>, t)
      [] op = "fail" -> fail(read, id, <<"m">>, t)
      [] op = "cancel" -> update(read, id, [status |-> "cancelled",
                                            completedAt |-> Some(t)])

\* the call waits at writeAll with the array it read and the array it built
Writing(op, id, read, array) ==
    [pc |-> "write", op |-> op, id |-> id, read |-> read, array |-> array]

\* TaskStore.create up to writeAll: readAll, the new task pushed
CreateBegin(p) ==
    /\ Call(p) = Idle
    /\ inflight.uuids < MaxCreates
    /\ \E task \in {[createTask(tasks, RaceInput, now) EXCEPT !.id = inflight.uuids + 1]} :
           inflight' = [inflight EXCEPT
                           !.calls[p] = Writing("create", task.id, tasks,
                                                Append(tasks, task)),
                           !.uuids = inflight.uuids + 1]
    /\ UNCHANGED <<taskVars, vaultVars, routeVars, auditLog, policy, pout, pushed,
                   fleet, ws>>

\* TaskStore.assign / complete / fail / update(cancelled) up to writeAll: readAll,
\* findIndex, the task replaced; with no such task the call returns undefined
UpdateBegin(p, op, id) ==
    /\ Call(p) = Idle
    /\ IF findIndex(tasks, id) = 0
       THEN /\ out' = Report(op, "Task not found.", 0)
            /\ UNCHANGED inflight
       ELSE /\ inflight' = [inflight EXCEPT
                               !.calls[p] = Writing(op, id, tasks,
                                                    Updated(op, tasks, id, now))]
            /\ UNCHANGED out
    /\ UNCHANGED <<tasks, now, remote, poll, vaultVars, routeVars, auditLog, policy, pout,
                   pushed, fleet, ws>>

\* writeAll of a create, assign, complete, fail or cancel, and the call returns
StoreEnd(p) ==
    /\ Call(p).pc = "write"
    /\ Call(p).op \in StoreOps \cup {"create"}
    /\ tasks' = Call(p).array
    /\ inflight' = [inflight EXCEPT
                       !.calls[p] = Idle,
                       !.returned = IF Call(p).op = "create"
                                    THEN inflight.returned \cup {Call(p).id}
                                    ELSE inflight.returned]
    /\ out' = Report(Call(p).op, "written", 0)
    /\ UNCHANGED <<now, remote, poll, vaultVars, routeVars, auditLog, policy, pout,
                   pushed, fleet, ws>>

\* `tasks dispatch <id>` up to the SSH session: store.get, agentStore.get, the guards
DispatchBegin(p, id) ==
    /\ Call(p) = Idle
    /\ \E index \in {findIndex(tasks, id)} :
       LET task == tasks[index]
           agent == AgentStoreGet(AgentsFile, Get(task.assignedTo))
       IN  IF index = 0
           THEN /\ out' = Report("dispatch", "Task not found.", 0)
                /\ UNCHANGED inflight
           ELSE IF ~IsSome(task.assignedTo)
           THEN /\ out' = Report("dispatch", "Task is not assigned to any agent.", 0)
                /\ UNCHANGED inflight
           ELSE IF task.status \in {"completed", "failed", "cancelled"}
           THEN /\ out' = Report("dispatch", "Task is already terminal.", 0)
                /\ UNCHANGED inflight
           ELSE IF ~IsSome(agent)
           THEN /\ out' = Report("dispatch", "Assigned agent not found in registry.", 0)
                /\ UNCHANGED inflight
           ELSE /\ inflight' = [inflight EXCEPT !.calls[p] =
                                   [pc |-> "ssh", op |-> "dispatch", id |-> id,
                                    task |-> task, agent |-> Get(agent)]]
                /\ UNCHANGED out
    /\ UNCHANGED <<tasks, now, remote, poll, vaultVars, routeVars, auditLog, policy, pout,
                   pushed, fleet, ws>>

\* the SSH session of dispatchViaSsh, then store.update up to writeAll
DispatchSsh(p, run) ==
    /\ Call(p).pc = "ssh"
    /\ IF run.connect = "throw" \/ run.mkdir = "throw" \/ run.put = "throw"
       THEN /\ out' = Report("dispatch", "Dispatch failed", 0)
            /\ inflight' = [inflight EXCEPT !.calls[p] = Idle]
            /\ UNCHANGED remote
       ELSE /\ remote' = [remote EXCEPT ![<<Call(p).agent.id, Call(p).id>>].instr =
                                            Some(buildTaskFile(Call(p).task))]
            /\ inflight' = [inflight EXCEPT !.calls[p] =
                               IF findIndex(tasks, Call(p).id) = 0 THEN Idle
                               ELSE Writing("dispatch", Call(p).id, tasks,
                                            update(tasks, Call(p).id,
                                                   [status |-> "running"]))]
            /\ UNCHANGED out
    /\ UNCHANGED <<tasks, now, poll, vaultVars, routeVars, auditLog, policy, pout, pushed,
                   fleet, ws>>

\* writeAll of the dispatch's store.update, audit('task.dispatch'), and it returns
DispatchEnd(p) ==
    /\ Call(p).pc = "write"
    /\ Call(p).op = "dispatch"
    /\ AuditRoom(auditLog, 1)
    /\ tasks' = Call(p).array
    /\ \E a \in {audit(auditLog, "task.dispatch", Some("a1"), TRUE)} :
           /\ auditLog' = a.log
           /\ out' = Report("dispatch",
                            IF a.threw THEN "Dispatch failed" ELSE "dispatched", 0)
    /\ inflight' = [inflight EXCEPT !.calls[p] = Idle]
    /\ UNCHANGED <<now, remote, poll, vaultVars, routeVars, policy, pout, pushed,
                   fleet, ws>>

\* enforceTimeouts up to its loop: store.list, Date.now(), the tasks it will fail
SweepBegin(p) ==
    /\ Call(p) = Idle
    /\ \E todo \in {SelectSeq(tasks, LAMBDA task : isOverdue(task, now))} :
           IF todo = <<>>
           THEN /\ out' = Report("sweep", "swept", 0)
                /\ UNCHANGED inflight
           ELSE /\ inflight' = [inflight EXCEPT !.calls[p] =
                                   [pc |-> "sweep", op |-> "sweep", todo |-> todo,
                                    at |-> now, count |-> 0]]
                /\ UNCHANGED out
    /\ UNCHANGED <<tasks, now, remote, poll, vaultVars, routeVars, auditLog, policy, pout,
                   pushed, fleet, ws>>

\* one turn of the loop up to writeAll: store.fail reads the file again
SweepRead(p) ==
    /\ Call(p).pc = "sweep"
    /\ \E task \in {Head(Call(p).todo)} :
       \E startTime \in {IF IsSome(task.assignedAt) THEN Get(task.assignedAt)
                         ELSE task.createdAt} :
           inflight' = [inflight EXCEPT !.calls[p] =
               [pc |-> "write", op |-> "sweep", id |-> task.id, read |-> tasks,
                array |-> fail(tasks, task.id,
                               timeoutMessage(Get(task.timeoutSeconds),
                                              Call(p).at - startTime), now),
                todo |-> Call(p).todo, at |-> Call(p).at, count |-> Call(p).count]]
    /\ UNCHANGED <<taskVars, vaultVars, routeVars, auditLog, policy, pout, pushed,
                   fleet, ws>>

\* writeAll of the sweep's store.fail, audit('task.fail'), and the loop goes on
SweepEnd(p) ==
    /\ Call(p).pc = "write"
    /\ Call(p).op = "sweep"
    /\ AuditRoom(auditLog, 1)
    /\ tasks' = Call(p).array
    /\ auditLog' = audit(auditLog, "task.fail", Head(Call(p).todo).assignedTo, TRUE).log
    /\ IF Tail(Call(p).todo) = <<>>
       THEN /\ inflight' = [inflight EXCEPT !.calls[p] = Idle]
            /\ out' = Report("sweep", "swept", Call(p).count + 1)
       ELSE /\ inflight' = [inflight EXCEPT !.calls[p] =
                               [pc |-> "sweep", op |-> "sweep",
                                todo |-> Tail(Call(p).todo), at |-> Call(p).at,
                                count |-> Call(p).count + 1]]
            /\ UNCHANGED out
    /\ UNCHANGED <<now, remote, poll, vaultVars, routeVars, policy, pout, pushed,
                   fleet, ws>>

-----------------------------------------------------------------------------
(* Rolling fleet update: `update fleet` *)

\* parseInt(s, 10) of an option string: an optional sign, then the digits up to the
\* first other character; None is NaN
Digits == {"0", "1", "2", "5"}
RECURSIVE DigitPrefix(_)
DigitPrefix(s) ==
    IF s = <<>> \/ Head(s) \notin Digits THEN <<>>
    ELSE <<Head(s)>> \o DigitPrefix(Tail(s))
parseIntOpt(s) ==
    LET negative == s # <<>> /\ Head(s) = "-"
        digits == DigitPrefix(IF negative THEN Tail(s) ELSE s)
    IN  IF digits = <<>> THEN None
        ELSE Some(IF negative THEN 0 - parseInt(digits) ELSE parseInt(digits))

\* parseInt(opts.concurrency, 10) || 1: NaN and 0 are falsy
concurrencyOf(opt) ==
    LET n == parseIntOpt(opt)
    IN  IF ~IsSome(n) \/ Get(n) = 0 THEN 1 ELSE Get(n)

\* Array.prototype.slice(start, end) with 0-based bounds: a negative bound counts
\* from the end, both are clamped to 0..length
sliceBound(len, k) == IF k < 0 THEN (IF len + k < 0 THEN 0 ELSE len + k)
                      ELSE IF k > len THEN len ELSE k
slice(arr, start, end) ==
    LET from == sliceBound(Len(arr), start)
        to == sliceBound(Len(arr), end)
    IN  IF to <= from THEN <<>> ELSE SubSeq(arr, from + 1, to)

UpdateResult(agentId, success, error) ==
    [agentId |-> agentId, success |-> success, error |-> error]

\* What the SSH session of one agent does: the update exits 0, exits non-zero, or
\* the connection throws
UpdateOutcomes == {"ok", "exit", "throw"}

\* the callback of batch.map for one agent, after its policy check
updateOne(allowed, agent, outcome) ==
    IF ~allowed THEN UpdateResult(agent.id, FALSE, "Denied by policy")
    ELSE IF outcome = "throw" THEN UpdateResult(agent.id, FALSE, "connect failed")
    ELSE IF outcome = "exit" THEN UpdateResult(agent.id, FALSE, "Update failed")
    ELSE UpdateResult(agent.id, TRUE, "")

\* the policy checks of a batch: the log after enforcePolicy('agent.update', agent)
\* of each agent
RECURSIVE gateBatch(_, _, _)
gateBatch(file, log, batch) ==
    IF batch = <<>> THEN log
    ELSE gateBatch(file,
                   enforcePolicy(file, log, <<"agent", "update">>, Some(Head(batch))).log,
                   Tail(batch))

\* the loop over batchResults: audit('agent.update') of each result
RECURSIVE auditBatch(_, _)
auditBatch(log, results) ==
    IF results = <<>> THEN log
    ELSE auditBatch(audit(log, "agent.update", Some(Head(results).agentId),
                          Head(results).success).log,
                    Tail(results))

Fleet(pc, agents, concurrency, i, results, inProgress) ==
    [pc |-> pc, agents |-> agents, concurrency |-> concurrency, i |-> i,
     results |-> results, inProgress |-> inProgress]
FleetIdle == Fleet("idle", <<>>, 1, 0, <<>>, 0)

\* `update fleet --role <role> --concurrency <n>` up to its loop: the filter, the
\* concurrency, i = 0
FleetStart(roleOpt, concurrencyOpt, roster) ==
    /\ fleet.pc \in {"idle", "done"}
    /\ \E agents \in {SelectSeq(roster, LAMBDA a :
                          ~IsSome(roleOpt) \/ a.role = Get(roleOpt))} :
           IF agents = <<>>
           THEN /\ fleet' = FleetIdle
                /\ pout' = PolicyOut("fleet", "No agents match the filter.", None)
           ELSE /\ fleet' = Fleet("batch", agents, concurrencyOf(concurrencyOpt), 0,
                                  <<>>, 0)
                /\ pout' = PolicyOut("fleet", "Rolling update", None)
    /\ UNCHANGED <<taskVars, vaultVars, routeVars, auditLog, policy, pushed, inflight, ws>>

\* one iteration of the loop `for (i = 0; i < agents.length; i += concurrency)`: the
\* batch sliced, every agent of it checked and updated at once, the results pushed
\* and audited; and the summary when the loop condition then fails
FleetBatch(outcomes) ==
    /\ fleet.pc = "batch"
    /\ fleet.i < Len(fleet.agents)
    /\ fleet.i > 0 - MaxBatches
    /\ \E batch \in {slice(fleet.agents, fleet.i, fleet.i + fleet.concurrency)} :
       \E batchResults \in {[k \in 1..Len(batch) |->
                               updateOne(evaluate(PolicyLoad(policy),
                                                  <<"agent", "update">>,
                                                  Some(batch[k])).allowed,
                                         batch[k], outcomes[batch[k].id])]} :
       \E results \in {fleet.results \o batchResults} :
           /\ AuditRoom(auditLog, 2 * Len(batch))
           /\ auditLog' = auditBatch(gateBatch(policy, auditLog, batch), batchResults)
           /\ IF fleet.i + fleet.concurrency < Len(fleet.agents)
              THEN /\ fleet' = Fleet("batch", fleet.agents, fleet.concurrency,
                                     fleet.i + fleet.concurrency, results, Len(batch))
                   /\ UNCHANGED pout
              ELSE /\ fleet' = Fleet("done", fleet.agents, fleet.concurrency,
                                     fleet.i + fleet.concurrency, results, Len(batch))
                   /\ pout' = PolicyOut("fleet", "Summary",
                                        Some([succeeded |->
                                                  Len(SelectSeq(results,
                                                          LAMBDA r : r.success)),
                                              failed |->
                                                  Len(SelectSeq(results,
                                                          LAMBDA r : ~r.success))]))
    /\ UNCHANGED <<taskVars, vaultVars, routeVars, policy, pushed, inflight, ws>>

-----------------------------------------------------------------------------
(* Dashboard feed: the WebSocket clients, the init state and the poll *)

WsClients == {"c1", "c2"}
Channels == {"fleet", "audit"}
INIT_AUDIT_LIMIT == 30
POLL_AUDIT_LIMIT == 10

\* agents.map((a) => ({ id, status, updatedAt })), the part of the list the hash sees
AgentRows(roster, updatedAt) ==
    [i \in 1..Len(roster) |->
        [id |-> roster[i].id, status |-> roster[i].status, updatedAt |-> updatedAt]]

\* JSON.stringify of the mapped list: equal strings for equal lists only
agentHash(agents) == Some(agents)

\* auditStore.query({ limit }): the timestamps of the newest `limit` rows, most
\* recent first; the rows carry the timestamps 1..rows
auditQuery(rows, limit) ==
    [i \in 1..(IF rows < limit THEN rows ELSE limit) |-> rows - i + 1]
auditHash(timestamps) == Some(timestamps)

PollIdle == [pc |-> "idle"]

\* lastAgentHash = '' and lastAuditHash = '' are None; `owed` holds the clients that
\* were connected and subscribed to fleet when the list changed and have not been
\* sent the current list since; `fresh` says the hashes come from an init whose data
\* is still the stored data, and poll.fresh that this held since the poll started
WsState(agents, rows) ==
    [agents |-> agents, rows |-> rows, clients |-> {},
     subscriptions |-> [c \in WsClients |-> {}],
     inits |-> [c \in WsClients |-> None],
     seen |-> [c \in WsClients |-> None],
     lastAgentHash |-> None, lastAuditHash |-> None, pollingStarted |-> FALSE,
     poll |-> PollIdle, sent |-> {}, owed |-> {}, fresh |-> FALSE]

WsUnchanged ==
    UNCHANGED <<taskVars, vaultVars, routeVars, auditLog, policy, pout, pushed,
                inflight, fleet>>

\* the clients a broadcast on the channel reaches
Receivers(channel) == {c \in ws.clients : channel \in ws.subscriptions[c]}

\* wss.on('connection'): the client pushed with both subscriptions, sendInitState
\* started (its two reads), the poll timer started once
WsConnect(c) ==
    /\ c \notin ws.clients
    /\ ~IsSome(ws.inits[c])
    /\ ws' = [ws EXCEPT !.clients = ws.clients \cup {c},
                        !.subscriptions[c] = Channels,
                        !.seen[c] = None,
                        !.inits[c] = Some([agents |-> ws.agents,
                                           audit |-> auditQuery(ws.rows,
                                                                INIT_AUDIT_LIMIT)]),
                        !.pollingStarted = TRUE]
    /\ WsUnchanged

\* the rest of sendInitState: both hashes set from what it read, the init message
\* sent if the socket is still open
WsInitSend(c) ==
    /\ IsSome(ws.inits[c])
    /\ LET init == Get(ws.inits[c])
           current == init.agents = ws.agents
                      /\ init.audit = auditQuery(ws.rows, INIT_AUDIT_LIMIT)
       IN  ws' = [ws EXCEPT !.lastAgentHash = agentHash(init.agents),
                            !.lastAuditHash = auditHash(init.audit),
                            !.seen[c] = IF c \in ws.clients THEN Some(init.agents)
                                        ELSE ws.seen[c],
                            !.owed = IF init.agents = ws.agents THEN ws.owed \ {c}
                                     ELSE ws.owed,
                            !.inits[c] = None,
                            !.fresh = current,
                            !.poll = IF ws.poll = PollIdle \/ current THEN ws.poll
                                     ELSE [ws.poll EXCEPT !.fresh = FALSE]]
    /\ WsUnchanged

\* ws.on('close')
WsDisconnect(c) ==
    /\ c \in ws.clients
    /\ ws' = [ws EXCEPT !.clients = ws.clients \ {c}, !.owed = ws.owed \ {c}]
    /\ WsUnchanged

\* ws.on('message') with a subscribe or unsubscribe message
WsMessage(c, type, channel) ==
    /\ c \in ws.clients
    /\ ws' = [ws EXCEPT !.subscriptions[c] =
                            IF type = "subscribe" THEN ws.subscriptions[c] \cup {channel}
                            ELSE ws.subscriptions[c] \ {channel},
                        !.owed = IF type = "unsubscribe" /\ channel = "fleet"
                                 THEN ws.owed \ {c} ELSE ws.owed]
    /\ ws' # ws
    /\ WsUnchanged

\* the registry changes: alpha's status flips and its updatedAt moves on
AgentChange ==
    /\ ws.agents[2].updatedAt < MaxChanges
    /\ ws' = [ws EXCEPT !.agents[2].status = IF ws.agents[2].status = "online"
                                             THEN "degraded" ELSE "online",
                        !.agents[2].updatedAt = ws.agents[2].updatedAt + 1,
                        !.owed = ws.owed \cup Receivers("fleet"),
                        !.fresh = FALSE,
                        !.poll = IF ws.poll = PollIdle THEN PollIdle
                                 ELSE [ws.poll EXCEPT !.fresh = FALSE]]
    /\ WsUnchanged

\* a row is appended to the audit file
AuditRowAdded ==
    /\ ws.rows < MaxAuditRows
    /\ ws' = [ws EXCEPT !.rows = ws.rows + 1,
                        !.fresh = FALSE,
                        !.poll = IF ws.poll = PollIdle THEN PollIdle
                                 ELSE [ws.poll EXCEPT !.fresh = FALSE]]
    /\ WsUnchanged

\* poll, started by the timer: store.list()
PollBegin ==
    /\ ws.pollingStarted
    /\ ws.poll = PollIdle
    /\ ws' = [ws EXCEPT !.poll = [pc |-> "agents", agents |-> ws.agents,
                                  fresh |-> ws.fresh],
                        !.sent = {}]
    /\ WsUnchanged

\* poll after store.list(): the hash compared, broadcast('fleet') if it differs,
\* then auditStore.query({ limit: 10 })
PollFleet ==
    /\ ws.poll.pc = "agents"
    /\ LET changed == agentHash(ws.poll.agents) # ws.lastAgentHash
           queried == auditQuery(ws.rows, POLL_AUDIT_LIMIT)
       IN  ws' = [ws EXCEPT
                     !.lastAgentHash = agentHash(ws.poll.agents),
                     !.seen = [c \in WsClients |->
                                  IF changed /\ c \in Receivers("fleet")
                                  THEN Some(ws.poll.agents) ELSE ws.seen[c]],
                     !.owed = IF changed /\ ws.poll.agents = ws.agents
                              THEN ws.owed \ Receivers("fleet") ELSE ws.owed,
                     !.sent = IF changed THEN {"fleet"} ELSE {},
                     !.poll = [pc |-> "audit", audit |-> queried,
                               fresh |-> ws.poll.fresh]]
    /\ WsUnchanged

\* poll after the audit query: the hash compared, broadcast('audit') if it differs
PollAudit ==
    /\ ws.poll.pc = "audit"
    /\ LET changed == auditHash(ws.poll.audit) # ws.lastAuditHash
       IN  ws' = [ws EXCEPT !.lastAuditHash = auditHash(ws.poll.audit),
                            !.sent = IF changed THEN ws.sent \cup {"audit"}
                                     ELSE ws.sent,
                            !.fresh = FALSE,
                            !.poll = PollIdle]
    /\ WsUnchanged

-----------------------------------------------------------------------------
(* The state after construction, and the specifications *)

InitTasks ==
    /\ tasks = <<>>
    /\ now = 0
    /\ remote = [p \in AgentIds \X TaskIds |-> NoFiles]
    /\ out = Report("init", "", 0)
    /\ poll = None

InitVault ==
    /\ vaultFile = None
    /\ vault = None
    /\ vout = VaultReport("init", "", None)
    /\ nonce = 0

\* no route call made yet
InitRoute == routed = Routed("idle", [title |-> <<>>], <<>>, <<>>, None, 0)

\* the DynamoAuditStore is set: its table is not followed
InitAudit == auditLog = AuditLog("dynamo", <<>>, TRUE, 0, {})

\* the JsonAuditStore, no audit.json yet
InitAuditJson == auditLog = AuditLog("json", <<>>, TRUE, 0, {})

\* no policy.json, no policy command run, nothing pushed
InitPolicy ==
    /\ policy = None
    /\ pout = PolicyOut("idle", "", None)
    /\ pushed = Pushed(<<>>, [a \in AgentIds |-> None])

\* no call in progress
InitRace == inflight = Inflight([p \in Procs |-> Idle], 0, {})
InitFleet == fleet = FleetIdle
InitWs == ws = WsState(AgentRows(AgentsFile, 0), 0)

Init ==
    /\ InitTasks /\ InitVault /\ InitRoute
    /\ InitAudit /\ InitPolicy /\ InitRace /\ InitFleet /\ InitWs

\* a caller holding a task and a roster to route
InitRouteCall ==
    /\ InitTasks /\ InitVault
    /\ InitAudit /\ InitPolicy /\ InitRace /\ InitFleet /\ InitWs
    /\ routed \in {Routed("input", t, r, <<>>, None, 0) : t \in RouteTasks, r \in RouteRosters}

Workers == {AgentSchemaParse(AgentsFile[2])}

\* the command gets as far as opening its SSH session
DispatchConnects(id, roster) ==
    /\ findIndex(tasks, id) # 0
    /\ IsSome(tasks[findIndex(tasks, id)].assignedTo)
    /\ tasks[findIndex(tasks, id)].status \notin TERMINAL
    /\ IsSome(AgentStoreGet(roster, Get(tasks[findIndex(tasks, id)].assignedTo)))

PollConnects(id, roster) ==
    /\ findIndex(tasks, id) # 0
    /\ IsSome(tasks[findIndex(tasks, id)].assignedTo)
    /\ IsSome(AgentStoreGet(roster, Get(tasks[findIndex(tasks, id)].assignedTo)))

\* no SSH session is opened
NoRun == SshRun("ok", "ok", "ok")
RunsIf(used) == IF used THEN DispatchRuns ELSE {NoRun}
PollRunsIf(used) == IF used THEN PollRuns ELSE {"none"}

\* Task lifecycle over the dispatch channel: create, dispatch, the worker's
\* artifacts, poll (the clock advances while the polling loop sleeps), and the
\* manual overrides
Next ==
    \/ \E text \in TaskTexts, a \in AssignOpts, d \in BOOLEAN,
          roster \in Rosters : \E run \in RunsIf(d) :
           CreateCmd(text, a, None, d, roster, run)
    \/ \E id \in TaskIds, roster \in Registries :
          \E run \in RunsIf(DispatchConnects(id, roster)) :
           DispatchCmd(id, roster, run)
    \/ \E id \in TaskIds, roster \in Registries, w \in WaitOpts :
          \E run \in PollRunsIf(parseInt(w) = 0 /\ PollConnects(id, roster)) :
           PollCmd(id, roster, w, run)
    \/ \E run \in PollRuns : PollIter(run)
    \/ \E a \in AgentIds, id \in TaskIds, kind \in {"result", "error"}, c \in Contents :
           WorkerWrite(a, id, kind, c)
    \/ \E id \in TaskIds, agent \in Workers : AssignOp(id, agent)
    \/ \E id \in TaskIds, r \in ManualTexts : CompleteCmd(id, r)
    \/ \E id \in TaskIds, e \in ManualTexts : FailCmd(id, e)
    \/ \E id \in TaskIds : CancelCmd(id)

Spec == Init /\ [][Next]_vars

\* Task lifecycle under the clock: create with a timeout, dispatch, the manual
\* overrides, the timeout sweep
NextSweep ==
    \/ \E text \in TaskTexts, a \in AssignOpts, t \in TimeoutOpts, d \in BOOLEAN,
          roster \in Rosters : \E run \in RunsIf(d) :
           CreateCmd(text, a, t, d, roster, run)
    \/ \E id \in TaskIds, roster \in Registries :
          \E run \in RunsIf(DispatchConnects(id, roster)) :
           DispatchCmd(id, roster, run)
    \/ SweepCmd
    \/ Tick
    \/ \E id \in TaskIds, agent \in Workers : AssignOp(id, agent)
    \/ \E id \in TaskIds, r \in ManualTexts : CompleteCmd(id, r)
    \/ \E id \in TaskIds, e \in ManualTexts : FailCmd(id, e)
    \/ \E id \in TaskIds : CancelCmd(id)

SpecSweep == Init /\ [][NextSweep]_vars

\* Task creation over every state of the roster, with dispatch and the manual
\* overrides
CreateRosters == Rosters \cup {AgentsFileSwapped}

NextCreate ==
    \/ \E text \in TaskTexts, a \in AssignOpts, d \in BOOLEAN,
          roster \in CreateRosters : \E run \in RunsIf(d) :
           CreateCmd(text, a, None, d, roster, run)
    \/ \E id \in TaskIds, roster \in Registries :
          \E run \in RunsIf(DispatchConnects(id, roster)) :
           DispatchCmd(id, roster, run)
    \/ \E id \in TaskIds, agent \in Workers : AssignOp(id, agent)
    \/ \E id \in TaskIds, r \in ManualTexts : CompleteCmd(id, r)
    \/ \E id \in TaskIds, e \in ManualTexts : FailCmd(id, e)
    \/ \E id \in TaskIds : CancelCmd(id)

SpecCreate == Init /\ [][NextCreate]_vars

\* The secret vault: open, set, get, list, delete, and the end of the process
NextVault ==
    \/ \E password \in Passwords : VaultOpen(password)
    \/ \E k \in Keys, v \in Values, a \in Scopes : VaultSet(k, v, a)
    \/ \E k \in Keys, a \in ScopeFilters : VaultGet(k, a)
    \/ \E a \in ScopeFilters : VaultList(a)
    \/ \E a \in ExportIds : VaultExport(a)
    \/ \E k \in Keys : VaultDelete(k)
    \/ VaultClose

SpecVault == Init /\ [][NextVault]_vars

\* The routing engine: calls of route on a held task and roster, and the dry run
NextRoute ==
    \/ RouteCall
    \/ \E text \in TaskTexts, roster \in Rosters : RouteCmd(text, roster)

SpecRoute == InitRouteCall /\ [][NextRoute]_vars

\* The secret vault with a vault file that can be altered behind its back
NextTamper ==
    \/ \E password \in Passwords : VaultOpen(password)
    \/ \E k \in Keys, v \in Values, a \in Scopes : VaultSet(k, v, a)
    \/ \E k \in Keys, a \in ScopeFilters : VaultGet(k, a)
    \/ \E a \in ScopeFilters : VaultList(a)
    \/ \E a \in ExportIds : VaultExport(a)
    \/ \E k \in Keys : VaultDelete(k)
    \/ VaultClose
    \/ \E part \in TamperParts, kind \in TamperKinds : Tamper(part, kind)

SpecTamper == Init /\ [][NextTamper]_vars

\* The policy commands over a policy file that is absent or was written by hand
PolicyFiles == {None, Some(PolicyFile("deny", <<>>))}

InitPolicyCmds ==
    /\ InitTasks /\ InitVault /\ InitRoute /\ InitAudit /\ InitRace /\ InitFleet /\ InitWs
    /\ policy \in PolicyFiles
    /\ pout = PolicyOut("idle", "", None)
    /\ pushed = Pushed(<<>>, [a \in AgentIds |-> None])

NextPolicy ==
    \/ PolicyInitCmd
    \/ \E r \in AddedRules :
           PolicyAddCmd(r.id, r.action, r.effect, r.conditions, r.requireConfirmation)
    \/ \E id \in RuleIds \cup {"deny-remove-orchestrator"} : PolicyRemoveCmd(id)
    \/ \E action \in CheckedActions, agentId \in CheckedAgents :
           PolicyCheckCmd(action, agentId, AgentsFile)

SpecPolicy == InitPolicyCmds /\ [][NextPolicy]_vars


\* Secrets push behind the policy gate: the vault is opened and filled, rules are
\* added and removed, deploys are audited, secrets are pushed
PushRules == {r \in AddedRules : r.id = "r1" /\ r.effect = "deny"}
PushTargets == {"a1", "a2", "ghost"}

InitPush ==
    /\ InitTasks /\ InitVault /\ InitRoute /\ InitAuditJson /\ InitPolicy
    /\ InitRace /\ InitFleet /\ InitWs

NextPush ==
    \/ VaultOpen("pw")
    \/ \E v \in Values, a \in Scopes : VaultSet("A", v, a)
    \/ \E r \in PushRules :
           PolicyAddCmd(r.id, r.action, r.effect, r.conditions, r.requireConfirmation)
    \/ PolicyRemoveCmd("r1")
    \/ \E agentId \in PushTargets, merge \in BOOLEAN, run \in PushRuns :
           SecretsPushCmd(agentId, AgentsFile, merge, run)
    \/ \E action \in DeployActions : DeployAuditCmd(action, "a1")

SpecPush == InitPush /\ [][NextPush]_vars

\* Dispatch next to the policy file and the audit store: tasks are created and
\* dispatched, rules are added and removed, the store stops and starts taking writes
InitGate ==
    /\ InitTasks /\ InitVault /\ InitRoute /\ InitAuditJson /\ InitPolicy
    /\ InitRace /\ InitFleet /\ InitWs

NextGate ==
    \/ \E text \in TaskTexts, d \in BOOLEAN : \E run \in RunsIf(d) :
           CreateCmd(text, Some("alpha"), None, d, AgentsFile, run)
    \/ \E id \in TaskIds : \E run \in RunsIf(DispatchConnects(id, AgentsFile)) :
           DispatchCmd(id, AgentsFile, run)
    \/ \E r \in PushRules :
           PolicyAddCmd(r.id, r.action, r.effect, r.conditions, r.requireConfirmation)
    \/ PolicyRemoveCmd("r1")
    \/ AuditStoreToggle

SpecGate == InitGate /\ [][NextGate]_vars

\* The rolling update of the roster under each concurrency option, with a rule that
\* denies the update of the offline worker added and removed
FleetRule ==
    PolicyRule("r1", <<"agent", "update">>, "deny",
               Some(<<PolicyCondition("status", "eq", <<"offline">>)>>), None)
RoleOpts == {None, Some("worker"), Some("orchestrator"), Some("observer")}
ConcurrencyOpts == {<<"1">>, <<"2">>, <<"0">>, <<"-", "1">>, <<"x">>}

NextFleet ==
    \/ \E roleOpt \in RoleOpts, concurrencyOpt \in ConcurrencyOpts :
           FleetStart(roleOpt, concurrencyOpt, AgentsFile)
    \/ \E outcomes \in [AgentIds -> UpdateOutcomes] : FleetBatch(outcomes)
    \/ PolicyAddCmd(FleetRule.id, FleetRule.action, FleetRule.effect,
                    FleetRule.conditions, FleetRule.requireConfirmation)
    \/ PolicyRemoveCmd("r1")

SpecFleet == Init /\ [][NextFleet]_vars

\* The dashboard feed with two clients, a registry that changes and an audit file
\* that starts with as many rows as the poll reads; setInterval keeps the poll
\* running and every started sendInitState finishes
InitWsFeed ==
    /\ InitTasks /\ InitVault /\ InitRoute /\ InitAudit /\ InitPolicy
    /\ InitRace /\ InitFleet
    /\ ws = WsState(AgentRows(AgentsFile, 0), POLL_AUDIT_LIMIT)

WsPoll == PollBegin \/ PollFleet \/ PollAudit

NextWs ==
    \/ \E c \in WsClients : WsConnect(c)
    \/ \E c \in WsClients : WsInitSend(c)
    \/ \E c \in WsClients : WsDisconnect(c)
    \/ \E c \in WsClients, type \in {"subscribe", "unsubscribe"} :
           WsMessage(c, type, "fleet")
    \/ AgentChange
    \/ AuditRowAdded
    \/ PollBegin
    \/ PollFleet
    \/ PollAudit

SpecWs ==
    /\ InitWsFeed /\ [][NextWs]_vars
    /\ WF_vars(WsPoll)
    /\ \A c \in WsClients : WF_vars(WsInitSend(c))

\* The audit log under the calls the program makes, one after another or overlapping
InitAuditCalls ==
    /\ InitTasks /\ InitVault /\ InitRoute /\ InitAuditJson /\ InitPolicy
    /\ InitRace /\ InitFleet /\ InitWs

NextAudit ==
    \/ \E p \in Procs, action \in AuditedActions, agentId \in {None, Some("a1")} :
           AuditBegin(p, action, agentId)
    \/ \E p \in Procs : AuditEnd(p)

SpecAudit == InitAuditCalls /\ [][NextAudit]_vars

\* The task store under two invocations whose reads and writes interleave:
\* creates, the updates of the first task, the timeout sweep
NextRace ==
    \/ \E p \in Procs : CreateBegin(p)
    \/ \E p \in Procs, op \in {"assign", "complete"}, id \in TaskIds :
           UpdateBegin(p, op, id)
    \/ \E p \in Procs : StoreEnd(p)
    \/ \E p \in Procs : SweepBegin(p)
    \/ \E p \in Procs : SweepRead(p)
    \/ \E p \in Procs : SweepEnd(p)
    \/ Tick

SpecRace == Init /\ [][NextRace]_vars

\* One task, created and assigned by one invocation, then dispatched or swept by
\* an invocation that overlaps with another one completing, failing or cancelling it
NextOverlap ==
    \/ \E text \in TaskTexts :
           CreateCmd(text, Some("alpha"), Some(<<"5">>), FALSE, AgentsFile, NoRun)
    \/ \E p \in Procs, op \in StoreOps \ {"assign"}, id \in TaskIds :
           UpdateBegin(p, op, id)
    \/ \E p \in Procs : StoreEnd(p)
    \/ \E p \in Procs, id \in TaskIds : DispatchBegin(p, id)
    \/ \E p \in Procs, run \in {NoRun, SshRun("throw", "ok", "ok")} : DispatchSsh(p, run)
    \/ \E p \in Procs : DispatchEnd(p)
    \/ \E p \in Procs : SweepBegin(p)
    \/ \E p \in Procs : SweepRead(p)
    \/ \E p \in Procs : SweepEnd(p)
    \/ Tick

SpecOverlap == Init /\ [][NextOverlap]_vars

-----------------------------------------------------------------------------
(* Properties of the task lifecycle *)

Terminal(task) == task.status \in TERMINAL

\* C1: once a task's stored status is completed, failed or cancelled, no later
\* operation changes its status, its result or its error.
C1_TerminalStateClosed ==
    [][\A i \in 1..Len(tasks) :
          Terminal(tasks[i]) =>
              /\ tasks'[i].status = tasks[i].status
              /\ tasks'[i].result = tasks[i].result
              /\ tasks'[i].error = tasks[i].error]_vars

\* C2: a task whose status is completed, failed or cancelled has exactly one of
\* result and error populated.
C2_ExactlyOneOfResultError ==
    \A i \in 1..Len(tasks) :
        Terminal(tasks[i]) => (IsSome(tasks[i].result) # IsSome(tasks[i].error))

\* C2 (amended): a completed task has its result populated and a failed task has
\* its error populated; cancel writes neither field, so a cancelled task holds
\* exactly the result and error it held before the cancel.
C2_ResultOrErrorByStatus ==
    /\ [](\A i \in 1..Len(tasks) :
             /\ tasks[i].status = "completed" => IsSome(tasks[i].result)
             /\ tasks[i].status = "failed" => IsSome(tasks[i].error))
    /\ [][\A id \in TaskIds :
             (CancelCmd(id) /\ findIndex(tasks, id) # 0) =>
                 LET i == findIndex(tasks, id)
                 IN  /\ tasks'[i].status = "cancelled"
                     /\ tasks'[i].result = tasks[i].result
                     /\ tasks'[i].error = tasks[i].error]_vars

\* a task cancelled before it completed or failed: neither field is populated
C2_Witness ==
    \E i \in 1..Len(tasks) :
        /\ tasks[i].status = "cancelled"
        /\ ~IsSome(tasks[i].result) /\ ~IsSome(tasks[i].error)
        /\ out.op = "cancel"

\* C3: assignedTo is present on every task whose status is not pending, and
\* absent on every pending task.
C3_AssignedToUnlessPending ==
    \A i \in 1..Len(tasks) :
        IsSome(tasks[i].assignedTo) <=> (tasks[i].status # "pending")

\* C3 (amended): assignedTo is present on every assigned or running task and
\* absent on every pending task; a completed, failed or cancelled task has
\* assignedTo exactly when it was assigned before (assignedAt is present).
C3_AssignedToByStatus ==
    \A i \in 1..Len(tasks) :
        /\ tasks[i].status \in {"assigned", "running"} => IsSome(tasks[i].assignedTo)
        /\ tasks[i].status = "pending" => ~IsSome(tasks[i].assignedTo)
        /\ Terminal(tasks[i]) =>
               (IsSome(tasks[i].assignedTo) <=> IsSome(tasks[i].assignedAt))

\* a running task, with its worker recorded
C3_Witness ==
    \E i \in 1..Len(tasks) :
        tasks[i].status = "running" /\ tasks[i].assignedTo = Some("a1")

\* C4: the timestamps present on a task satisfy
\* createdAt <= assignedAt <= completedAt (the clock never goes backwards).
C4_TimestampsOrdered ==
    \A i \in 1..Len(tasks) :
        LET t == tasks[i]
        IN  /\ IsSome(t.assignedAt) => t.createdAt <= Get(t.assignedAt)
            /\ IsSome(t.completedAt) => t.createdAt <= Get(t.completedAt)
            /\ (IsSome(t.assignedAt) /\ IsSome(t.completedAt)) =>
                   Get(t.assignedAt) <= Get(t.completedAt)

\* The files of a stored task on the worker it is assigned to
FilesOf(roster, task) ==
    remote[<<Get(AgentStoreGet(roster, Get(task.assignedTo))).id, task.id>>]

\* C5: dispatch sets a task running only after its instruction file has been
\* written to the worker; if the connection, the directory creation or the file
\* write fails, the stored task is left exactly as it was.
C5_DeliveryFailureKeepsTask ==
    [][/\ \A id \in TaskIds, roster \in Registries, run \in DispatchRuns :
             ( /\ out'.op = "dispatch"
               /\ DispatchConnects(id, roster)
               /\ DispatchCmd(id, roster, run)
               /\ (run.connect = "throw" \/ run.mkdir # "ok" \/ run.put = "throw") )
             => tasks' = tasks
       /\ \A text \in TaskTexts, a \in AssignOpts, t \in TimeoutOpts,
             roster \in Rosters, run \in DispatchRuns :
             ( /\ out'.op = "create"
               /\ CreateCmd(text, a, t, TRUE, roster, run)
               /\ (run.connect = "throw" \/ run.mkdir # "ok" \/ run.put = "throw") )
             => tasks'[Len(tasks')].status # "running"
       /\ \A i \in 1..Len(tasks') :
             ( /\ tasks'[i].status = "running"
               /\ (i > Len(tasks) \/ tasks[i].status # "running") )
             => /\ IsSome(tasks'[i].assignedTo)
                /\ IsSome(remote'[<<Get(tasks'[i].assignedTo), tasks'[i].id>>].instr)]_vars

\* C5 (amended): dispatch sets a task running only after its instruction file has
\* been written to the worker; if the connection or the file write fails, or the
\* directory-creation command cannot be run, the stored task is left exactly as
\* it was. A directory-creation command that runs and exits non-zero is not
\* treated as a failure: the task becomes running when the file write succeeds.
C5_RejectionKeepsTask ==
    [][/\ \A id \in TaskIds, roster \in Registries, run \in DispatchRuns :
             ( /\ out'.op = "dispatch"
               /\ DispatchConnects(id, roster)
               /\ DispatchCmd(id, roster, run) )
             => IF run.connect = "throw" \/ run.mkdir = "throw" \/ run.put = "throw"
                THEN tasks' = tasks
                ELSE tasks'[findIndex(tasks, id)].status = "running"
       /\ \A text \in TaskTexts, a \in AssignOpts, t \in TimeoutOpts,
             roster \in Rosters, run \in DispatchRuns :
             ( /\ out'.op = "create"
               /\ CreateCmd(text, a, t, TRUE, roster, run)
               /\ (run.connect = "throw" \/ run.mkdir = "throw" \/ run.put = "throw") )
             => tasks'[Len(tasks')].status # "running"
       /\ \A i \in 1..Len(tasks') :
             ( /\ tasks'[i].status = "running"
               /\ (i > Len(tasks) \/ tasks[i].status # "running") )
             => /\ IsSome(tasks'[i].assignedTo)
                /\ IsSome(remote'[<<Get(tasks'[i].assignedTo), tasks'[i].id>>].instr)]_vars

\* a dispatch failed and left the task assigned, with no file on the worker
C5_Witness ==
    /\ out.op = "dispatch" /\ out.report = "Dispatch failed"
    /\ \E i \in 1..Len(tasks) :
          /\ tasks[i].status = "assigned"
          /\ ~IsSome(remote[<<Get(tasks[i].assignedTo), tasks[i].id>>].instr)

\* C6: a poll that finds neither artifact, a poll that hits a transport error
\* and a polling loop that exhausts its wait budget all leave the stored tasks
\* unchanged.
C6_PollWithoutOutcomeKeepsStore ==
    [][/\ \A id \in TaskIds, roster \in Registries, w \in WaitOpts, run \in PollRuns :
             ( /\ out'.op = "poll"
               /\ PollConnects(id, roster)
               /\ PollCmd(id, roster, w, run)
               /\ LET task == tasks[findIndex(tasks, id)]
                      files == FilesOf(roster, task)
                  IN  \/ ~IsSome(files.result) /\ ~IsSome(files.error)
                      \/ pollTaskResult(remote, task,
                             Get(AgentStoreGet(roster, Get(task.assignedTo))), run).threw )
             => tasks' = tasks
       /\ \A run \in PollRuns :
             ( /\ out'.op = "poll"
               /\ IsSome(poll)
               /\ PollIter(run)
               /\ LET p == Get(poll)
                      files == remote[<<p.agent.id, p.task.id>>]
                  IN  \/ now >= p.deadline
                      \/ ~IsSome(files.result) /\ ~IsSome(files.error)
                      \/ pollTaskResult(remote, p.task, p.agent, run).threw )
             => tasks' = tasks]_vars

\* the polling loop ran out of its budget and the task is still running
C6_Witness ==
    /\ out = Report("poll", "Timeout reached. Task still running.", 0)
    /\ \E i \in 1..Len(tasks) :
          /\ tasks[i].status = "running"
          /\ ~IsSome(tasks[i].result) /\ ~IsSome(tasks[i].error)
          /\ ~IsSome(tasks[i].completedAt)

\* C7: for every content of the artifacts, a poll that finds a result artifact
\* reports completed and stores the task as completed with result = the
\* artifact's content and completedAt set; a poll that finds only an error
\* artifact reports failed and stores the task as failed with error set; with
\* both artifacts the outcome is completed.
C7_PollFollowsArtifacts ==
    [][\A id \in TaskIds, roster \in Registries :
          (out'.op = "poll" /\ PollConnects(id, roster)
              /\ PollCmd(id, roster, <<"0">>, "none"))
          => LET i == findIndex(tasks, id)
                 files == FilesOf(roster, tasks[i])
             IN  /\ IsSome(files.result) =>
                        /\ out'.report = "completed"
                        /\ tasks'[i].status = "completed"
                        /\ tasks'[i].result = files.result
                        /\ tasks'[i].completedAt = Some(now)
                 /\ (~IsSome(files.result) /\ IsSome(files.error)) =>
                        /\ out'.report = "failed"
                        /\ tasks'[i].status = "failed"
                        /\ IsSome(tasks'[i].error)
                        /\ tasks'[i].completedAt = Some(now)]_vars

\* C8: one sweep fails every assigned or running task that has a declared
\* timeoutSeconds (any integer >= 0) and whose elapsed time since assignedAt
\* (createdAt when there is none) exceeds it, with an error and completedAt set;
\* it leaves every other task unchanged; the count it returns is the number of
\* tasks it moved to failed.
C8_SweepFailsExactlyOverdue ==
    [][SweepCmd =>
          /\ \A i \in 1..Len(tasks) :
                LET task == tasks[i]
                    startTime == IF IsSome(task.assignedAt) THEN Get(task.assignedAt)
                                 ELSE task.createdAt
                IN  IF /\ task.status \in {"assigned", "running"}
                       /\ IsSome(task.timeoutSeconds)
                       /\ Get(task.timeoutSeconds) >= 0
                       /\ (now - startTime) > Get(task.timeoutSeconds) * MS_PER_SECOND
                    THEN /\ tasks'[i].status = "failed"
                         /\ IsSome(tasks'[i].error)
                         /\ tasks'[i].completedAt = Some(now)
                    ELSE tasks'[i] = task
          /\ out'.count = Cardinality({i \in 1..Len(tasks) :
                                          tasks[i].status # "failed"
                                          /\ tasks'[i].status = "failed"})]_vars

\* C9: a sweep that directly follows a sweep, with no clock advance and no other
\* operation in between, returns 0 and changes no task.
C9_SecondSweepFindsNothing ==
    [][/\ (out.op = "sweep" /\ SweepCmd) => (out'.count = 0 /\ tasks' = tasks)
       /\ SweepCmd => /\ enforceTimeouts(tasks', auditLog', now').count = 0
                      /\ enforceTimeouts(tasks', auditLog', now').tasks = tasks']_vars

\* a second sweep has just returned 0 on a task this clock value timed out
C9_Witness ==
    /\ out = Report("sweep", "swept", 0)
    /\ \E i \in 1..Len(tasks) :
          /\ tasks[i].status = "failed"
          /\ IsSome(tasks[i].error) /\ Get(tasks[i].error)[1] = "Timed out after "
          /\ tasks[i].completedAt = Some(now)

-----------------------------------------------------------------------------
(* Properties of the secret vault *)

\* what get(key) with no scope filter returns from the vault file
Stored(file, handle, key) ==
    LET l == load(file, handle)
    IN  IF l.threw THEN None ELSE get(l.secrets, key, None)

\* C10: after set(k, v, scope), get(k) with no scope filter returns value v with
\* that scope, whatever was stored under k before; a later set or delete on
\* another key, and a reopen of the vault with the same password, leave what
\* get(k) returns unchanged.
C10_SetThenGet ==
    [][/\ \A k \in Keys, v \in Values, a \in Scopes :
             (vout'.op = "set" /\ VaultSet(k, v, a))
             => Stored(Get(vaultFile'), Get(vault'), k) = Some(Entry(v, a))
       /\ \A k \in Keys : \A k2 \in Keys \ {k} :
             ( /\ vout'.op \in {"set", "delete"}
               /\ \/ \E v \in Values, a \in Scopes : VaultSet(k2, v, a)
                  \/ VaultDelete(k2) )
             => Stored(Get(vaultFile'), Get(vault'), k)
                    = Stored(Get(vaultFile), Get(vault), k)
       /\ (IsSome(vaultFile) /\ (VaultClose \/ \E p \in Passwords : VaultOpen(p)))
             => vaultFile' = vaultFile
       /\ \A p \in Passwords :
             ( /\ IsSome(vaultFile) /\ Get(vaultFile).payload.key[1] = p
               /\ VaultOpen(p) )
             => /\ IsSome(vault')
                /\ ~load(Get(vaultFile'), Get(vault')).threw]_vars

\* the password that sealed the vault file
SealedWith(file) == file.check.key[1]

\* C11: opening an existing vault with a password other than the one that
\* created it fails with the invalid-password error, returns no vault object
\* (so no get, list or export can run on it) and leaves the vault file as it was.
C11_WrongPasswordNeverOpens ==
    /\ [](IsSome(vault) /\ IsSome(vaultFile)
             => Get(vault).key = Get(vaultFile).check.key)
    /\ [][\A p \in Passwords :
             ( /\ IsSome(vaultFile)
               /\ p # SealedWith(Get(vaultFile))
               /\ VaultOpen(p) )
             => /\ vout' = VaultReport("open", INVALID_PASSWORD, None)
                /\ vault' = None
                /\ vaultFile' = vaultFile]_vars

\* a vault holding a secret has just refused the wrong password
C11_Witness ==
    /\ vout = VaultReport("open", INVALID_PASSWORD, None)
    /\ ~IsSome(vault)
    /\ IsSome(vaultFile) /\ Len(Get(vaultFile).payload.data) > 0

\* C12: once any part of a stored ciphertext or authentication tag has been
\* altered, the next open (for the check value) or the next get (for the secret
\* payload) fails with an error and returns nothing.
C12_AlteredFileFails ==
    [][( /\ vout'.op \in {"open", "get"}
         /\ IsSome(vaultFile) )
       => /\ ~AsSaved(Get(vaultFile).check)
             => \A p \in Passwords :
                   VaultOpen(p) => vout'.error # "" /\ vault' = None
          /\ ~AsSaved(Get(vaultFile).payload)
             => \A k \in Keys : \A a \in ScopeFilters :
                   VaultGet(k, a) => vout'.error # "" /\ vout'.result = None]_vars

\* the entries the vault file holds, in the order they were first set
StoredEntries(file) == file.payload.data

HasEntry(file, key) == \E i \in 1..Len(StoredEntries(file)) : StoredEntries(file)[i].key = key

EntryOf(file, key) ==
    StoredEntries(file)[CHOOSE i \in 1..Len(StoredEntries(file)) :
                            StoredEntries(file)[i].key = key].entry

\* C13: for a stored entry, get(key, scopeA) returns absent when the entry is
\* scoped to another owner, returns the entry when it is global or scoped to
\* scopeA, and get(key) with no filter returns it whatever its scope.
C13_GetHonoursScope ==
    [][\A k \in Keys : \A a \in ScopeFilters :
          ( /\ vout'.op = "get"
            /\ VaultGet(k, a)
            /\ HasEntry(Get(vaultFile), k) )
          => \E e \in {EntryOf(Get(vaultFile), k)} :
                /\ vout'.error = ""
                /\ vout'.result = IF IsSome(a) /\ IsSome(e.agentId) /\ e.agentId # a
                                  THEN None ELSE Some(e)]_vars

\* every key of the vault is scoped to a1, and a get came back absent: it was
\* filtered by another owner's scope
C13_Witness ==
    /\ vout = VaultReport("get", "", None)
    /\ IsSome(vaultFile)
    /\ \A k \in {"A", "B"} :
          /\ HasEntry(Get(vaultFile), k)
          /\ EntryOf(Get(vaultFile), k).agentId = Some("a1")

\* the stored entries with their values replaced by f
Revalue(own, f) == [i \in 1..Len(own) |-> [own[i] EXCEPT !.entry.value = Some(f[i])]]

\* C14: what list returns depends on the keys and scopes only: any vault with
\* the same keys and scopes and other secret values gives the same list output,
\* for every filter.
C14_ListHidesValues ==
    [][\A a \in ScopeFilters :
          (vout'.op = "list" /\ vout'.error = "" /\ VaultList(a))
          => \E own \in {StoredEntries(Get(vaultFile))} :
                \A f \in [1..Len(own) -> Values] :
                    list(JSONparse(Revalue(own, f)), a) = vout'.result]_vars

\* a list of a vault that holds two secrets of different values
C14_Witness ==
    /\ vout.op = "list" /\ Len(vout.result) = 2
    /\ IsSome(vaultFile)
    /\ \E own \in {StoredEntries(Get(vaultFile))} :
          Len(own) = 2 /\ own[1].entry.value # own[2].entry.value

\* C15: getAgentEnvEntries(scopeId) returns exactly the entries that are global
\* or scoped to scopeId, each with its stored value: no key of another owner,
\* and every global or owner-scoped key.
C15_ExportExactlyOwnAndGlobal ==
    [][\A id \in ExportIds :
          (vout'.op = "export" /\ vout'.error = "" /\ VaultExport(id))
          => /\ \A k \in Keys :
                   (\E i \in 1..Len(vout'.result) : vout'.result[i].key = k)
                   <=> /\ HasEntry(Get(vaultFile), k)
                       /\ EntryOf(Get(vaultFile), k).agentId \in {None, Some(id)}
             /\ \A i \in 1..Len(vout'.result) :
                   /\ vout'.result[i].value
                         = EntryOf(Get(vaultFile), vout'.result[i].key).value
                   /\ \A j \in 1..Len(vout'.result) :
                         vout'.result[j].key = vout'.result[i].key => i = j]_vars

\* an export that kept one of two stored secrets: the other is another owner's
C15_Witness ==
    /\ vout.op = "export" /\ vout.error = "" /\ Len(vout.result) = 1
    /\ IsSome(vaultFile)
    /\ Len(StoredEntries(Get(vaultFile))) = 2

-----------------------------------------------------------------------------
(* Properties of the routing engine *)

\* route has run on routed.task and routed.agents
HasRouted == routed.op \in {"route", "cli"}

\* C16: no worker with role orchestrator and no worker with status offline
\* appears in the output of route, whatever its capabilities, description or
\* session key.
C16_RouteExcludesOrchestratorAndOffline ==
    HasRouted
    => \A i \in 1..Len(routed.results) :
          /\ routed.results[i].agent.role # "orchestrator"
          /\ routed.results[i].agent.status # "offline"

\* a roster with an orchestrator and an offline worker that both hold the
\* required capability and a session key was routed, and the output is not empty
C16_Witness ==
    /\ routed.op = "route" /\ Len(routed.results) > 0
    /\ IsSome(routed.task.requiredCapabilities)
    /\ \E i \in 1..Len(routed.agents) : \E j \in 1..Len(routed.agents) :
          /\ routed.agents[i].role = "orchestrator"
          /\ routed.agents[j].status = "offline"
          /\ \A a \in {routed.agents[i], routed.agents[j]} :
                /\ InSeq(Get(routed.task.requiredCapabilities)[1], a.capabilities)
                /\ a.sessionKey = "s1"

\* the place of an agent in the roster
PosOf(agents, id) == CHOOSE p \in 1..Len(agents) : agents[p].id = id

Eligible(a) == a.status # "offline" /\ a.role # "orchestrator"

\* C17: the output of route holds exactly the eligible workers whose score is
\* greater than 0, by score descending, workers of equal score in their roster
\* order; bestRoute gives the first element, or none when the output is empty.
C17_RouteRanksPositiveScores ==
    HasRouted
    => \E res \in {routed.results} : \E agents \in {routed.agents} :
          /\ \A i \in 1..Len(res) :
                /\ \E p \in 1..Len(agents) : agents[p] = res[i].agent
                /\ Eligible(res[i].agent)
                /\ res[i] = scoreAgent(routed.task, res[i].agent)
                /\ res[i].score > 0
          /\ \A p \in 1..Len(agents) :
                (Eligible(agents[p]) /\ scoreAgent(routed.task, agents[p]).score > 0)
                => \E i \in 1..Len(res) : res[i].agent = agents[p]
          /\ \A i \in 1..Len(res) : \A j \in (i + 1)..Len(res) :
                \/ res[i].score > res[j].score
                \/ /\ res[i].score = res[j].score
                   /\ PosOf(agents, res[i].agent.id) < PosOf(agents, res[j].agent.id)
          /\ routed.op = "route"
                => routed.best = IF Len(res) > 0 THEN Some(res[1]) ELSE None

\* three workers were ranked: the first two tie, the third scores less and
\* stood before one of them in the roster
C17_Witness ==
    /\ routed.op = "route" /\ Len(routed.results) = 3
    /\ routed.results[1].score = routed.results[2].score
    /\ routed.results[2].score > routed.results[3].score
    /\ PosOf(routed.agents, routed.results[3].agent.id)
          < PosOf(routed.agents, routed.results[2].agent.id)
    /\ routed.best = Some(routed.results[1])

\* the score the five components give (words and description are compared in
\* lower case, as the title and description are for the capability tags)
ExpectedScore(task, agent) ==
    LET required == IF IsSome(task.requiredCapabilities)
                    THEN Get(task.requiredCapabilities) ELSE <<>>
        caps == Field(agent, "capabilities", <<>>)
        text == toLowerCase(task.title \o <<WS>> \o task.description)
        words == split(text)
        desc == toLowerCase(Field(agent, "description", <<>>))
    IN  10 * Cardinality({i \in 1..Len(required) : InSeq(required[i], caps)})
        + 5 * Cardinality({i \in 1..Len(caps) : includes(text, toLowerCase(caps[i]))})
        + Cardinality({i \in 1..Len(words) :
                          Len(words[i]) > 4 /\ includes(desc, words[i])})
        + (IF agent.status = "online" THEN 3 ELSE 0)
        + (IF "sessionKey" \in DOMAIN agent THEN 2 ELSE 0)

\* C18: a worker's score is 10 per required capability present verbatim in its
\* capabilities, plus 5 per capability of its own that occurs, whatever the
\* case, in the task title and description, plus 1 per task word longer than 4
\* characters that occurs in its description, plus 3 if it is online, plus 2 if
\* it has a session key; with no required capabilities the last three remain.
C18_ScoreIsSumOfComponents ==
    HasRouted
    => /\ \A i \in 1..Len(routed.results) :
             routed.results[i].score
                = ExpectedScore(routed.task, routed.results[i].agent)
       /\ \A p \in 1..Len(routed.agents) :
             ( /\ Eligible(routed.agents[p])
               /\ \A i \in 1..Len(routed.results) :
                     routed.results[i].agent # routed.agents[p] )
             => ExpectedScore(routed.task, routed.agents[p]) <= 0

\* a task with no required capabilities: a degraded worker without session key
\* scored 5 for one capability tag and 3 for three words of the task, and an
\* online worker with a session key scored 5 + 3 + 2
C18_Witness ==
    /\ routed.op = "route"
    /\ ~IsSome(routed.task.requiredCapabilities)
    /\ \E i \in 1..Len(routed.results) : \E j \in 1..Len(routed.results) :
          /\ routed.results[i].score = 8
          /\ routed.results[i].agent.status = "degraded"
          /\ routed.results[j].score = 10
          /\ routed.results[j].agent.status = "online"

-----------------------------------------------------------------------------
(* Properties of task creation *)

\* C20: after a create with no forced assignment, or with one that names an
\* agent the roster does not hold: when route over the roster is not empty the
\* task is stored assigned (running once --dispatch delivered it) to the first
\* ranked candidate, with that candidate's reason and assignedAt set; when no
\* candidate has a positive score the create reports no error and the task is
\* stored pending with no assignee.
C20_CreateAssignsFirstRanked ==
    [][\A text \in TaskTexts : \A a \in AssignOpts : \A d \in BOOLEAN :
       \A roster \in CreateRosters : \A run \in RunsIf(d) :
          ( /\ out'.op = "create"
            /\ ~IsSome(a) \/ ~IsSome(AgentStoreGet(roster, Get(a)))
            /\ CreateCmd(text, a, None, d, roster, run) )
          => \E task \in {tasks'[Len(tasks')]} :
             \E res \in {routeTask(task, AgentStoreList(roster))} :
                /\ Len(tasks') = Len(tasks) + 1
                /\ IF Len(res) > 0
                   THEN /\ task.status \in {"assigned", "running"}
                        /\ task.status = "running" => d
                        /\ task.assignedTo = Some(res[1].agent.id)
                        /\ task.assignedToName = Some(res[1].agent.name)
                        /\ task.routingReason = Some(res[1].reason)
                        /\ task.assignedAt = Some(now)
                   ELSE /\ task.status = "pending"
                        /\ task.assignedTo = None
                        /\ task.assignedAt = None
                        /\ out'.report = "pending"]_vars

\* a create was routed to beta, the only worker with a positive score, which
\* stands after alpha in the roster
C20_Witness ==
    /\ out = Report("create", "assigned", 0)
    /\ Len(tasks) = 1
    /\ tasks[1].status = "assigned"
    /\ tasks[1].assignedTo = Some("a2")
    /\ tasks[1].routingReason = Some(<< <<"agent is online">> >>)

-----------------------------------------------------------------------------
(* Properties of the policy engine *)

\* the rule's pattern matches the action and each of its conditions holds for the
\* agent; a rule with conditions matches no call made without an agent
RuleApplies(rule, action, agent) ==
    /\ matchAction(rule.action, action)
    /\ \/ ~IsSome(rule.conditions)
       \/ Get(rule.conditions) = <<>>
       \/ /\ IsSome(agent)
          /\ \A i \in 1..Len(Get(rule.conditions)) :
                 evaluateCondition(Get(rule.conditions)[i], Get(agent))

Applying(rules, action, agent) ==
    {i \in 1..Len(rules) : RuleApplies(rules[i], action, agent)}

FirstOf(S) == CHOOSE i \in S : \A j \in S : i <= j
LastOf(S) == CHOOSE i \in S : \A j \in S : j <= i

\* C29: a policy check returns the decision of the first rule, in list order, whose
\* pattern matches the action and whose conditions all hold for the agent; allowed is
\* true exactly when that rule's effect is allow; with no such rule the default
\* effect decides and no confirmation is required; and after every policy command
\* no two rules of the policy share an id.
C29_FirstMatchDecidesAndIdsUnique ==
    [][/\ (pout'.op = "check" /\ IsSome(pout'.decision) /\ policy' = policy) =>
            \E d \in {Get(pout'.decision)} :
            \E pol \in {PolicyLoad(policy)} :
            \E S \in {Applying(pol.rules, d.action, d.agent)} :
               IF S = {}
               THEN /\ d.result.allowed = (pol.defaultEffect = "allow")
                    /\ d.result.matchedRule = None
                    /\ d.result.requireConfirmation = FALSE
               ELSE /\ d.result.matchedRule = Some(pol.rules[FirstOf(S)])
                    /\ d.result.allowed = (pol.rules[FirstOf(S)].effect = "allow")
       /\ \E rules \in {PolicyLoad(policy').rules} :
              \A i, j \in 1..Len(rules) : rules[i].id = rules[j].id => i = j]_vars

\* a check made with an agent after rules were added: two rules of opposite effect
\* apply, and the earlier one decided
C29_Witness ==
    /\ pout.op = "check" /\ IsSome(pout.decision)
    /\ IsSome(Get(pout.decision).agent)
    /\ \E pol \in {PolicyLoad(policy)} :
       \E S \in {Applying(pol.rules, Get(pout.decision).action, Get(pout.decision).agent)} :
          /\ Cardinality(S) >= 2
          /\ Len(pol.rules) >= 3
          /\ pol.rules[FirstOf(S)].effect # pol.rules[LastOf(S)].effect
          /\ Get(pout.decision).result.matchedRule = Some(pol.rules[FirstOf(S)])

-----------------------------------------------------------------------------
(* Properties of the policy gate and the audit sink *)

RemoteSteps == {"connect", "cat", "mkdir", "put", "restart"}

\* the log holds an entry of this action for this agent that it did not hold before
Recorded(before, after, action, agentId) ==
    \E i \in 1..Len(after.file) :
        /\ after.file[i].action = action
        /\ after.file[i].agentId = agentId
        /\ \A j \in 1..Len(before.file) : before.file[j].id # after.file[i].id

\* C21: in secrets push the policy gate is evaluated for secrets.push on the target
\* agent before any remote step; on a deny decision no remote step happens, the
\* worker's .env is untouched, and an audit record of the denial is appended.
C21_PushIsGatedAndDenialAudited ==
    [][\A agentId \in PushTargets :
          (/\ vout'.op = "push"
           /\ \E merge \in BOOLEAN, run \in PushRuns :
                  SecretsPushCmd(agentId, AgentsFile, merge, run)) =>
          \E agent \in {AgentStoreGet(AgentsFile, agentId)} :
            /\ \A i \in 1..Len(pushed'.trace) :
                   pushed'.trace[i] \in RemoteSteps =>
                       i > 1 /\ pushed'.trace[1] = "gate"
            /\ (/\ pushed'.trace # <<>>
                /\ ~evaluate(PolicyLoad(policy), <<"secrets", "push">>, agent).allowed) =>
                   /\ pushed'.trace = <<"gate">>
                   /\ pushed'.env = pushed.env
                   /\ Recorded(auditLog, auditLog', "policy.check", Some(agentId))]_vars

\* the policy's decision for dispatching to the agent a task is assigned to
DispatchAllowed(agentId) ==
    evaluate(PolicyLoad(policy), <<"task", "dispatch">>,
             AgentStoreGet(AgentsFile, agentId)).allowed

\* C22: a dispatch is gated by the policy: when the policy denies the dispatch
\* action on the worker, no instruction file is written to that worker and no task
\* assigned to it becomes running.
C22_DeniedDispatchWritesNothing ==
    [][\A a \in AgentIds : ~DispatchAllowed(a) =>
          /\ \A id \in TaskIds : remote'[<<a, id>>].instr = remote[<<a, id>>].instr
          /\ \A i \in 1..Len(tasks') :
                 (tasks'[i].assignedTo = Some(a) /\ tasks'[i].status = "running") =>
                     (i <= Len(tasks) /\ tasks[i].status = "running")]_vars

\* the SSH session of the run rejects at one of its steps
RunFails(run) == run.connect = "throw" \/ run.mkdir = "throw" \/ run.put = "throw"

\* C23: a dispatch whose connection, directory creation or file write fails is
\* caught, leaves the stored task as it was, and appends an audit record of the
\* failed attempt (the audit store taking writes).
C23_FailedDispatchIsAudited ==
    [][\A id \in TaskIds, run \in DispatchRuns :
          (/\ out'.op = "dispatch"
           /\ RunFails(run)
           /\ DispatchConnects(id, AgentsFile)
           /\ auditLog.writable
           /\ DispatchCmd(id, AgentsFile, run)) =>
              /\ out'.report = "Dispatch failed"
              /\ tasks' = tasks
              /\ Len(auditLog'.file) > Len(auditLog.file)]_vars

\* C25: audit() never throws: while the audit store rejects every write, no command
\* ends on the audit's rejection, nothing is written to the log, and a dispatch
\* fails exactly when its own SSH session fails, whether it is made by `tasks
\* dispatch` or by `tasks create --dispatch`.
C25_AuditFailureIsSwallowed ==
    [][~auditLog.writable =>
          /\ out'.report # "audit rejected"
          /\ pout'.report # "audit rejected"
          /\ auditLog'.file = auditLog.file
          /\ \A id \in TaskIds, run \in DispatchRuns :
                 (/\ out'.op = "dispatch"
                  /\ DispatchConnects(id, AgentsFile)
                  /\ DispatchCmd(id, AgentsFile, run)) =>
                     /\ (out'.report = "Dispatch failed") = RunFails(run)
                     /\ (out'.report = "dispatched") = ~RunFails(run)
          /\ \A text \in TaskTexts, run \in DispatchRuns :
                 (/\ out'.op = "create"
                  /\ CreateCmd(text, Some("alpha"), None, TRUE, AgentsFile, run)) =>
                     /\ (out'.report = "Dispatch failed") = RunFails(run)
                     /\ (out'.report = "dispatched") = ~RunFails(run)]_vars

\* a task was created and then dispatched while the store rejected both appends
C25_Witness ==
    /\ ~auditLog.writable
    /\ auditLog.file = <<>> /\ auditLog.seq >= 2
    /\ out.op = "dispatch" /\ out.report = "dispatched"
    /\ Len(tasks) = 1 /\ tasks[1].status = "running"

\* C24: the audit log only grows: the entry of every audit() call that has returned
\* is in the log, and no entry of the log is removed or altered, whatever action
\* names the program audits and however its audit() calls overlap.
C24_AuditLogOnlyGrows ==
    [][/\ \A id \in auditLog'.returned :
              \E i \in 1..Len(auditLog'.file) : auditLog'.file[i].id = id
       /\ \A i \in 1..Len(auditLog.file) :
              Len(auditLog'.file) >= i /\ auditLog'.file[i] = auditLog.file[i]]_vars

-----------------------------------------------------------------------------
(* Properties of overlapping invocations *)

\* the step is the write of call p
WriteOf(p) == Call(p).pc = "write" /\ inflight'.calls[p] # Call(p)

\* C26 as stated: once create has returned a task, the task store holds a task with
\* that id, for every interleaving of the reads and writes of two invocations.
C26_TasksNeverDeleted ==
    \A id \in inflight.returned : \E i \in 1..Len(tasks) : tasks[i].id = id

\* C26: no operation deletes a task when it runs alone: a write made while the
\* store still holds the array the operation read keeps every stored task at its
\* place under its id, and a create's write adds the task it returns; no other step
\* changes the store.
C26_WriteKeepsWhatItRead ==
    [][/\ \A p \in Procs :
              (WriteOf(p) /\ Call(p).read = tasks) =>
                  /\ \A i \in 1..Len(tasks) :
                         Len(tasks') >= i /\ tasks'[i].id = tasks[i].id
                  /\ \A id \in inflight'.returned \ inflight.returned :
                         \E i \in 1..Len(tasks') : tasks'[i].id = id
       /\ (\A p \in Procs : ~WriteOf(p)) => tasks' = tasks]_vars

\* two tasks were created and the first one was completed, none was lost
C26_Witness ==
    /\ inflight.returned = {1, 2}
    /\ Len(tasks) = 2
    /\ tasks[1].status = "completed"
    /\ \A p \in Procs : Call(p) = Idle

\* C28: the dispatch command and the timeout sweep never write to a task whose
\* stored status is terminal at the moment of their write: such a task is left as
\* it is, whatever another invocation did since they checked its status.
C28_NoWriteToTerminalTask ==
    [][\A p \in Procs :
          (WriteOf(p) /\ Call(p).op \in {"dispatch", "sweep"}) =>
              \A i \in 1..Len(tasks) :
                  tasks[i].status \in TERMINAL => tasks'[i] = tasks[i]]_vars

-----------------------------------------------------------------------------
(* Properties of the rolling fleet update *)

\* C27: the fleet update run terminates with one result per selected agent for
\* every concurrency option: every iteration of the batch loop moves the index
\* forward, has at most `concurrency` agents in progress, has produced one result
\* for each agent before the new index whatever the failures and denials were, and
\* the run ends with exactly one result per selected agent, in order.
C27_FleetRunCompletes ==
    [][(fleet.pc = "batch" /\ fleet' # fleet) =>
           /\ fleet'.i > fleet.i
           /\ fleet'.inProgress <= fleet.concurrency
           /\ Len(fleet'.results) =
                  (IF fleet'.i > Len(fleet.agents) THEN Len(fleet.agents) ELSE fleet'.i)
           /\ fleet'.pc = "done" =>
                  /\ Len(fleet'.results) = Len(fleet.agents)
                  /\ \A k \in 1..Len(fleet.agents) :
                         fleet'.results[k].agentId = fleet.agents[k].id]_vars

-----------------------------------------------------------------------------
(* Properties of the dashboard feed *)

\* C30: every change of the agent list is eventually broadcast to every client that
\* is connected and subscribed to fleet (a client that is owed the current list is
\* eventually sent it, or leaves), and a poll that starts after an init with no
\* data change in between broadcasts nothing.
C30_ChangesReachEveryClient ==
    /\ \A c \in WsClients : (c \in ws.owed) ~> (c \notin ws.owed)
    /\ [][(ws.poll # PollIdle /\ ws.poll.fresh /\ ws'.poll # ws.poll) =>
              ws'.sent = {}]_vars

====
